---------------------------- MODULE Spec2Model ----------------------------
(***************************************************************************)
(* STL-WebViewer: the STL parser worker (public/stl-parser.worker.js) and  *)
(* the page that drives it (the Index page: handleFileSelect,              *)
(* worker.onmessage, worker.onerror, handleUploadNewFile).                 *)
(*                                                                         *)
(* Bytes are naturals 0..255 and a file is a sequence of bytes.  Text is a *)
(* sequence of character codes.  A decoded float32 is its 4-byte little-   *)
(* endian word, every NaN encoding being the one value NaNWord (a          *)
(* Float32Array element read back by the page is a Number, and a Number    *)
(* has one NaN).                                                           *)
(*                                                                         *)
(* Byte alphabet of the model's files: ASCII bytes and 255.  255 is never  *)
(* part of a valid UTF-8 sequence; no multi-byte UTF-8 sequence occurs.    *)
(* The top bit of the uint32 triangle count is clear in every file of the  *)
(* model (the count stays below 2^31).                                     *)
(***************************************************************************)
EXTENDS Integers, Sequences, FiniteSets, TLC

VARIABLES
    cfg,        \* the files the user may select and the number of loads
    loading,    \* Index: useState(false)
    progress,   \* Index: useState(0)
    status,     \* Index: useState('')
    modelData,  \* Index: useState<ModelData | null>(null)
    workerRef,  \* Index: useRef<Worker | null>(null); 0 is null
    toasts,     \* every toast({...}) call so far, in order
    uncaught,   \* errors thrown out of a page event handler, in order
    loads,      \* the handleFileSelect activations, in order of the calls
    workers,    \* the Worker objects, workers[k] created by loads[k]
    chan,       \* chan[k]: messages of worker k queued for the page
    delivered,  \* delivered[k]: messages of worker k the page has handled
    timers,     \* pending setTimeout callbacks
    ap          \* the ASCII decode of a text given by its number of facets

vars == <<cfg, loading, progress, status, modelData, workerRef, toasts,
          uncaught, loads, workers, chan, delivered, timers, ap>>

pageVars == <<loading, progress, status, modelData, workerRef, toasts,
              uncaught, loads, timers>>

-----------------------------------------------------------------------------
(* Sequences *)

Min(a, b) == IF a <= b THEN a ELSE b
Max(a, b) == IF a >= b THEN a ELSE b

Slice(s, from, to) == SubSeq(s, from + 1, Min(to, Len(s)))

Last(s) == s[Len(s)]

RECURSIVE Flatten(_)
Flatten(ss) == IF ss = <<>> THEN <<>> ELSE Head(ss) \o Flatten(Tail(ss))

Repeat(x, n) == [k \in 1..n |-> x]

Includes(t, sub) ==
    \E s \in 1..(Len(t) - Len(sub) + 1) : SubSeq(t, s, s + Len(sub) - 1) = sub

\* a / b of JavaScript: the integer quotient, or the fraction when b does not
\* divide a
Div(a, b) == IF a % b = 0 THEN a \div b ELSE <<"fraction", a, b>>

-----------------------------------------------------------------------------
(* Text: TextDecoder, toLowerCase, the keywords *)

ReplacementChar == 65533

\* TextDecoder('utf-8', {fatal: true}) throws on these (exact on the model's
\* byte alphabet)
Utf8Valid(bytes) == \A k \in 1..Len(bytes) : bytes[k] < 128

\* TextDecoder('utf-8', {fatal: false}) and new TextDecoder()
Decode(bytes) ==
    [k \in 1..Len(bytes) |-> IF bytes[k] < 128 THEN bytes[k] ELSE ReplacementChar]

toLowerCase(t) ==
    [k \in 1..Len(t) |-> IF t[k] >= 65 /\ t[k] <= 90 THEN t[k] + 32 ELSE t[k]]

kwSolid  == <<115,111,108,105,100>>
kwFacet  == <<102,97,99,101,116>>
kwVertex == <<118,101,114,116,101,120>>
kwNormal == <<110,111,114,109,97,108>>
kwOuter  == <<111,117,116,101,114>>
kwLoop   == <<108,111,111,112>>

-----------------------------------------------------------------------------
(* isAsciiSTL *)

HeaderLength == 80
SampleThreshold == 100
SampleLength == 1000

\* isAsciiSTL with a first rule "a short input is ASCII"
isAsciiSTLShortFirst(data) ==
    IF Len(data) < 200 THEN TRUE
    ELSE IF ~Utf8Valid(Slice(data, 0, HeaderLength)) THEN FALSE
    ELSE LET isSolid == Includes(toLowerCase(Decode(Slice(data, 0, HeaderLength))), kwSolid)
             sample  == Decode(Slice(data, 0, Min(SampleLength, Len(data))))
         IN  isSolid /\ (Includes(sample, kwFacet) \/ Includes(sample, kwVertex))

\* isAsciiSTL with the header decoded tolerantly
isAsciiSTLTolerantHeader(data) ==
    LET header  == Decode(Slice(data, 0, HeaderLength))
        isSolid == Includes(toLowerCase(header), kwSolid)
    IN  IF isSolid /\ Len(data) > SampleThreshold
        THEN LET sample == Decode(Slice(data, 0, Min(SampleLength, Len(data))))
             IN  Includes(sample, kwFacet) \/ Includes(sample, kwVertex)
        ELSE isSolid

\* isAsciiSTL with the whole input as the sample
isAsciiSTLWholeSample(data) ==
    IF ~Utf8Valid(Slice(data, 0, HeaderLength))
    THEN FALSE
    ELSE LET header  == Decode(Slice(data, 0, HeaderLength))
             isSolid == Includes(toLowerCase(header), kwSolid)
         IN  IF isSolid /\ Len(data) > SampleThreshold
             THEN Includes(Decode(data), kwFacet) \/ Includes(Decode(data), kwVertex)
             ELSE isSolid

isAsciiSTL(data) ==
    IF ~Utf8Valid(Slice(data, 0, HeaderLength))
    THEN FALSE      \* catch: "If decoding fails, it's binary"
    ELSE LET header  == Decode(Slice(data, 0, HeaderLength))
             isSolid == Includes(toLowerCase(header), kwSolid)
         IN  IF isSolid /\ Len(data) > SampleThreshold
             THEN LET sample == Decode(Slice(data, 0, Min(SampleLength, Len(data))))
                  IN  Includes(sample, kwFacet) \/ Includes(sample, kwVertex)
             ELSE isSolid

-----------------------------------------------------------------------------
(* postMessage with a transfer list *)

\* the buffer posted without a transfer list: the sender keeps its bytes
Cloned(buffer) == buffer

\* what the sender holds of a buffer named in the transfer list of
\* postMessage: the buffer is detached, its length and that of every view
\* on it is 0
Detached(buffer) == <<>>

-----------------------------------------------------------------------------
(* DataView: getUint32, getFloat32 (little-endian) *)

\* a read of n bytes at offset off throws RangeError unless it lies in the buffer
InBounds(bytes, off, n) == off >= 0 /\ off + n <= Len(bytes)

\* the count read most significant byte first
getUint32BigEndian(bytes, off) ==
    bytes[off + 4] + 256 * bytes[off + 3] + 65536 * bytes[off + 2]
        + 16777216 * bytes[off + 1]

getUint32(bytes, off) ==
    bytes[off + 1] + 256 * bytes[off + 2] + 65536 * bytes[off + 3]
        + 16777216 * bytes[off + 4]

NaNWord == <<0, 0, 192, 127>>

IsNaNWord(w) ==
    /\ w[4] % 128 = 127
    /\ w[3] >= 128
    /\ (w[3] > 128 \/ w[2] > 0 \/ w[1] > 0)

getFloat32(bytes, off) ==
    LET w == SubSeq(bytes, off + 1, off + 4)
    IN  IF IsNaNWord(w) THEN NaNWord ELSE w

-----------------------------------------------------------------------------
(* facetPattern: the regular expression of parseAsciiSTL, and its exec *)

\* \s of a JavaScript regular expression
IsSpace(c) ==
    c \in {9, 10, 11, 12, 13, 32, 160, 5760, 8232, 8233, 8239, 8287, 12288, 65279}
          \cup (8192..8202)

IsDigit(c) == c >= 48 /\ c <= 57
IsSign(c)  == c = 43 \/ c = 45
IsDot(c)   == c = 46
IsExpChar(c) == c = 101 \/ c = 69

\* positions are 1-based; At(t, p) is 0 past the end of the text
At(t, p) == IF p >= 1 /\ p <= Len(t) THEN t[p] ELSE 0

RECURSIVE DigitsEnd(_, _)
DigitsEnd(t, p) == IF IsDigit(At(t, p)) THEN DigitsEnd(t, p + 1) ELSE p

\* white space that is blanks only
RECURSIVE SpacesEndBlanksOnly(_, _)
SpacesEndBlanksOnly(t, p) == IF At(t, p) = 32 THEN SpacesEndBlanksOnly(t, p + 1) ELSE p

RECURSIVE SpacesEnd(_, _)
SpacesEnd(t, p) == IF IsSpace(At(t, p)) THEN SpacesEnd(t, p + 1) ELSE p

\* [-+]?[0-9]*\.?[0-9]+(?:[eE][-+]?[0-9]+)? at position p: the position after
\* the match the regular expression engine finds first, 0 when there is none.
\* A shorter match always ends inside the number token, where no \s+ can
\* follow, so backtracking into the number never makes the pattern match.
NumberEnd(t, p) ==
    LET p1 == IF IsSign(At(t, p)) THEN p + 1 ELSE p
        d1 == DigitsEnd(t, p1)
        m  == IF IsDot(At(t, d1)) /\ IsDigit(At(t, d1 + 1))
              THEN DigitsEnd(t, d1 + 1)
              ELSE IF d1 > p1 THEN d1 ELSE 0
        x  == IF IsSign(At(t, m + 1)) THEN m + 2 ELSE m + 1
    IN  IF m = 0 THEN 0
        ELSE IF IsExpChar(At(t, m)) /\ IsDigit(At(t, x))
             THEN DigitsEnd(t, x)
             ELSE m

Lit(w) == [kind |-> "lit", word |-> w]
WS     == [kind |-> "ws"]
Num    == [kind |-> "num"]

Triple == <<WS, Num, WS, Num, WS, Num>>

facetPattern ==
    <<Lit(kwFacet), WS, Lit(kwNormal)>> \o Triple
        \o <<WS, Lit(kwOuter), WS, Lit(kwLoop)>>
        \o <<WS, Lit(kwVertex)>> \o Triple
        \o <<WS, Lit(kwVertex)>> \o Triple
        \o <<WS, Lit(kwVertex)>> \o Triple

\* the pattern from item k on, matched at position p: the end of the match and
\* the captured groups, or end 0
RECURSIVE MatchFrom(_, _, _, _, _)
MatchFrom(pat, t, p, k, groups) ==
    IF k > Len(pat) THEN [end |-> p, groups |-> groups]
    ELSE LET it == pat[k]
         IN  CASE it.kind = "lit" ->
                    IF SubSeq(t, p, Min(p + Len(it.word) - 1, Len(t))) = it.word
                    THEN MatchFrom(pat, t, p + Len(it.word), k + 1, groups)
                    ELSE [end |-> 0, groups |-> <<>>]
               [] it.kind = "ws" ->
                    IF SpacesEnd(t, p) > p
                    THEN MatchFrom(pat, t, SpacesEnd(t, p), k + 1, groups)
                    ELSE [end |-> 0, groups |-> <<>>]
               [] OTHER ->
                    IF NumberEnd(t, p) > 0
                    THEN MatchFrom(pat, t, NumberEnd(t, p), k + 1,
                                   Append(groups, SubSeq(t, p, NumberEnd(t, p) - 1)))
                    ELSE [end |-> 0, groups |-> <<>>]

\* a search that gives up at the first facet the pattern does not match
MatchStartsFirstFacetOnly(pat, t, lastIndex) ==
    LET facets == { s \in (lastIndex + 1)..Len(t) :
                      /\ SubSeq(t, s, Min(s + Len(pat[1].word) - 1, Len(t))) = pat[1].word
                      /\ IsSpace(At(t, s + Len(pat[1].word))) }
    IN  IF facets = {} THEN {}
        ELSE LET first == CHOOSE x \in facets : \A y \in facets : x <= y
             IN  IF MatchFrom(pat, t, first, 1, <<>>).end > 0 THEN {first} ELSE {}

\* facetPattern.exec(text) with the g flag: the leftmost match starting at or
\* after lastIndex (0-based); found = FALSE is the null result
MatchStarts(pat, t, lastIndex) ==
    { s \in (lastIndex + 1)..Len(t) :
        t[s] = pat[1].word[1] /\ MatchFrom(pat, t, s, 1, <<>>).end > 0 }

exec(pat, t, lastIndex) ==
    LET starts == MatchStarts(pat, t, lastIndex)
    IN  IF starts = {} THEN [found |-> FALSE, lastIndex |-> 0, groups |-> <<>>]
        ELSE LET s == CHOOSE x \in starts : \A y \in starts : x <= y
                 m == MatchFrom(pat, t, s, 1, <<>>)
             IN  [found |-> TRUE, lastIndex |-> m.end - 1, groups |-> m.groups]

-----------------------------------------------------------------------------
(* parseFloat of a matched number, and the rounding of new Float32Array(list) *)

RECURSIVE DigitsValue(_)
DigitsValue(ds) ==
    IF ds = <<>> THEN 0 ELSE 10 * DigitsValue(SubSeq(ds, 1, Len(ds) - 1)) + (Last(ds) - 48)

\* the number as sign * num / den, den a power of ten
parseFloat(tok) ==
    LET neg  == At(tok, 1) = 45
        p1   == IF IsSign(At(tok, 1)) THEN 2 ELSE 1
        d1   == DigitsEnd(tok, p1)
        hasF == IsDot(At(tok, d1))
        m    == IF hasF THEN DigitsEnd(tok, d1 + 1) ELSE d1
        int  == SubSeq(tok, p1, d1 - 1)
        frac == IF hasF THEN SubSeq(tok, d1 + 1, m - 1) ELSE <<>>
        hasE == IsExpChar(At(tok, m))
        eNeg == At(tok, m + 1) = 45
        x    == IF IsSign(At(tok, m + 1)) THEN m + 2 ELSE m + 1
        ex   == IF hasE THEN DigitsValue(SubSeq(tok, x, Len(tok))) ELSE 0
        e10  == (IF eNeg THEN 0 - ex ELSE ex) - Len(frac)
        d    == DigitsValue(int \o frac)
    IN  [neg |-> neg,
         num |-> IF e10 >= 0 THEN d * 10^e10 ELSE d,
         den |-> IF e10 >= 0 THEN 1 ELSE 10^(0 - e10)]

\* the e with 2^e <= num/den < 2^(e+1), for num > 0
RECURSIVE Exponent(_, _, _)
Exponent(num, den, e) ==
    IF num < den THEN Exponent(2 * num, den, e - 1)
    ELSE IF num >= 2 * den THEN Exponent(num, 2 * den, e + 1)
    ELSE e

\* the float32 word of a number: round to nearest, ties to even (normal range)
Float32(v) ==
    LET s == IF v.neg THEN 128 ELSE 0
    IN  IF v.num = 0 THEN <<0, 0, 0, s>>
        ELSE LET e0  == Exponent(v.num, v.den, 0)
                 n   == IF e0 <= 23 THEN v.num * 2^(23 - e0) ELSE v.num
                 d   == IF e0 <= 23 THEN v.den ELSE v.den * 2^(e0 - 23)
                 q   == n \div d
                 r   == n % d
                 up  == 2 * r > d \/ (2 * r = d /\ q % 2 = 1)
                 m0  == IF up THEN q + 1 ELSE q
                 e   == IF m0 = 16777216 THEN e0 + 1 ELSE e0
                 fr  == IF m0 = 16777216 THEN 0 ELSE m0 - 8388608
                 E   == e + 127
             IN  <<fr % 256, (fr \div 256) % 256,
                   (E % 2) * 128 + fr \div 65536, s + E \div 2>>

-----------------------------------------------------------------------------
(* The files of the model *)

MaxTri    == 2    \* binary files declare and hold up to MaxTri records
MaxCut    == 3    \* bytes missing at the end of a binary file: 0..MaxCut
MaxFacets == 2    \* ASCII files hold up to MaxFacets facet blocks
BigTri    == 100  \* the record count of the one large binary file

\* float32 words (little-endian)
F0   == <<0, 0, 0, 0>>          \* 0
F1   == <<0, 0, 128, 63>>       \* 1
Fm25 == <<0, 0, 32, 192>>       \* -2.5
FNaN == <<1, 0, 192, 255>>      \* a NaN with a payload
FsNaN == <<1, 0, 128, 127>>     \* a signalling NaN
Fw(k) == <<0, 0, k, 65>>        \* 8 + k/16, for k in 0..127

\* a 50-byte record: normal, three vertices, attribute bytes
Record(n, v1, v2, v3, attr) == Flatten(n \o v1 \o v2 \o v3) \o attr

RecA == Record(<<F0, F0, F1>>, <<F0, F0, F0>>, <<F1, F0, F0>>, <<F0, F1, F0>>, <<0, 0>>)
RecB == Record(<<F0, F0, F1>>, <<F1, F1, F0>>, <<F1, F0, F0>>, <<F0, F1, F0>>, <<0, 0>>)
RecC == Record(<<Fm25, FNaN, Fw(1)>>, <<Fw(2), Fw(3), Fw(4)>>,
               <<Fw(5), Fw(6), Fw(7)>>, <<Fw(8), Fw(9), Fw(10)>>, <<171, 65>>)
RecD == Record(<<Fm25, FNaN, Fw(1)>>, <<Fw(2), Fw(3), Fw(4)>>,
               <<Fw(5), Fw(6), Fw(7)>>, <<Fw(8), Fw(9), Fw(10)>>, <<0, 0>>)

\* the bytes of a list of records
FlattenRecords(rs) ==
    [k \in 1..(50 * Len(rs)) |-> rs[((k - 1) \div 50) + 1][((k - 1) % 50) + 1]]

\* the record lists of the binary files: n records of a rotation
RecordCycle(v) ==
    CASE v = 1 -> <<RecA, RecB, RecC>>
      [] v = 2 -> <<RecC, RecA, RecB>>
      [] OTHER -> <<RecD, RecA, RecB>>

Records(v, n) == [k \in 1..n |-> RecordCycle(v)[((k - 1) % 3) + 1]]

\* 80-byte headers: zero bytes; "solid model" padded with spaces; a header
\* holding bytes that are not UTF-8
HeaderZero  == Repeat(0, 80)
HeaderSolid == kwSolid \o <<32, 109, 111, 100, 101, 108>> \o Repeat(32, 69)
HeaderBad   == <<255, 254>> \o Repeat(0, 78)

Headers == {HeaderZero, HeaderSolid, HeaderBad}

U32(n) == <<n % 256, (n \div 256) % 256, (n \div 65536) % 256, n \div 16777216>>

\* a binary file: header, declared count, the records, the last cut bytes missing
BinaryFile(header, count, records, cut) ==
    LET all == header \o U32(count) \o FlattenRecords(records)
    IN  SubSeq(all, 1, Len(all) - cut)

DeclaredCounts == (0..MaxTri) \cup {16777216}

\* every header with the first record list, every record list with the zero header
BinaryFiles ==
    { BinaryFile(hv[1], c, Records(hv[2], n), cut) :
        hv \in (Headers \X {1}) \cup ({HeaderZero} \X (1..3)),
        c \in DeclaredCounts, n \in 0..MaxTri, cut \in 0..MaxCut }

BigBinaryFile == BinaryFile(HeaderZero, BigTri, Records(1, BigTri), 0)

\* files too short to hold the count
ShortFiles == { SubSeq(HeaderZero, 1, n) : n \in {0, 50, 80} }
                \cup { HeaderZero \o <<1, 0, 0>> }

\* ASCII text
SolidLine ==
    <<115,111,108,105,100,32,116,10>>
EndSolidLine ==
    <<101,110,100,115,111,108,105,100,32,116>>
\* the facet of the one-facet ASCII scenario
FacetG1 ==
    <<102,97,99,101,116,32,110,111,114,109,97,108,32,48,32,48,32,49,10,111,
      117,116,101,114,32,108,111,111,112,10,118,101,114,116,101,120,32,48,
      32,48,32,48,10,118,101,114,116,101,120,32,49,32,48,32,48,10,118,101,
      114,116,101,120,32,48,32,49,32,48,10,101,110,100,108,111,111,112,10,
      101,110,100,102,97,99,101,116,10>>
\* a facet with signs, fractions, exponents and wider white space
FacetG2 ==
    <<102,97,99,101,116,32,110,111,114,109,97,108,32,45,49,46,53,101,48,32,
      43,46,53,32,50,46,53,69,43,49,10,9,111,117,116,101,114,32,32,108,111,
      111,112,10,32,118,101,114,116,101,120,32,49,101,45,50,32,48,46,50,53,
      32,45,51,10,32,118,101,114,116,101,120,32,49,50,32,55,32,52,46,53,101,
      49,10,32,118,101,114,116,101,120,32,46,53,32,49,101,50,32,51,51,10,
      101,110,100,108,111,111,112,10,101,110,100,102,97,99,101,116,10>>
\* a facet with two vertex lines
FacetB2 ==
    <<102,97,99,101,116,32,110,111,114,109,97,108,32,48,32,48,32,49,10,111,
      117,116,101,114,32,108,111,111,112,10,118,101,114,116,101,120,32,48,
      32,48,32,48,10,118,101,114,116,101,120,32,49,32,48,32,48,10,101,110,
      100,108,111,111,112,10,101,110,100,102,97,99,101,116,10>>

\* a facet with four vertex lines
FacetB4 ==
    <<102,97,99,101,116,32,110,111,114,109,97,108,32,48,32,48,32,49,10,111,
      117,116,101,114,32,108,111,111,112,10,118,101,114,116,101,120,32,48,
      32,48,32,48,10,118,101,114,116,101,120,32,49,32,48,32,48,10,118,101,
      114,116,101,120,32,48,32,49,32,48,10,118,101,114,116,101,120,32,49,32,
      49,32,48,10,101,110,100,108,111,111,112,10,101,110,100,102,97,99,101,
      116,10>>

FacetBlocks == {FacetG1, FacetG2, FacetB2, FacetB4}

RECURSIVE SeqsUpTo(_, _)
SeqsUpTo(S, n) ==
    IF n = 0 THEN {<<>>}
    ELSE SeqsUpTo(S, n - 1)
           \cup { Append(q, x) : q \in { r \in SeqsUpTo(S, n - 1) : Len(r) = n - 1 }, x \in S }

AsciiFiles ==
    { first \o Flatten(blocks) \o EndSolidLine :
        first \in {SolidLine, <<>>}, blocks \in SeqsUpTo(FacetBlocks, MaxFacets) }

\* the one-facet text with its keywords in upper case, and in mixed case
AsciiUpperFile ==
    <<83,79,76,73,68,32,116,10,70,65,67,69,84,32,78,79,82,77,65,76,32,48,32,
      48,32,49,10,79,85,84,69,82,32,76,79,79,80,10,86,69,82,84,69,88,32,48,
      32,48,32,48,10,86,69,82,84,69,88,32,49,32,48,32,48,10,86,69,82,84,69,
      88,32,48,32,49,32,48,10,69,78,68,76,79,79,80,10,69,78,68,70,65,67,69,
      84,10,69,78,68,83,79,76,73,68,32,116>>
AsciiMixedFile ==
    <<83,111,108,105,100,32,116,10,70,97,99,101,116,32,78,111,114,109,97,
      108,32,48,32,48,32,49,10,79,117,116,101,114,32,76,111,111,112,10,86,
      101,114,116,101,120,32,48,32,48,32,48,10,86,101,114,116,101,120,32,49,
      32,48,32,48,10,86,101,114,116,101,120,32,48,32,49,32,48,10,69,110,100,
      76,111,111,112,10,69,110,100,70,97,99,101,116,10,69,110,100,83,111,
      108,105,100,32,116>>

FileContents ==
    BinaryFiles \cup {BigBinaryFile} \cup ShortFiles \cup AsciiFiles
      \cup {AsciiUpperFile, AsciiMixedFile}

\* file names: "a.stl", "B.STL", "c.obj"
NameLower == <<97, 46, 115, 116, 108>>
NameUpper == <<66, 46, 83, 84, 76>>
NameOther == <<99, 46, 111, 98, 106>>
dotStl    == <<46, 115, 116, 108>>

File(name, bytes) == [name |-> name, bytes |-> bytes]

Files ==
    { File(NameLower, b) : b \in FileContents }
      \cup { File(NameUpper, FacetG1), File(NameOther, FacetG1) }

\* the files of the runs with several loads: a binary file of one triangle,
\* a file of no bytes, a file that is not named .stl
PageFiles ==
    { File(NameLower, BinaryFile(HeaderZero, 1, Records(1, 1), 0)),
      File(NameLower, <<>>),
      File(NameOther, FacetG1) }

\* the files the user may select, by the name cfg gives the set
FilesOf(set) ==
    CASE set = "all"  -> Files
      [] set = "page" -> PageFiles
      [] OTHER        -> {}

\* the lists of files the user may drop: one file, or a file that is not
\* named .stl before one that is
DropsOf(set) ==
    { <<f>> : f \in FilesOf(set) }
      \cup { <<f, g>> : f \in { h \in FilesOf(set) : h.name = NameOther },
                        g \in { h \in FilesOf(set) : h.bytes = <<>> } }

-----------------------------------------------------------------------------
(* The worker: self.onmessage, parseAsciiSTL, parseBinarySTL *)

\* error.message of the RangeError a DataView read outside the buffer throws,
\* and of the one a typed array that cannot be allocated throws
MsgOutOfBounds == "Offset is outside the bounds of the DataView"
MsgAllocation  == "Array buffer allocation failed"

ProgressMsg(n) == [type |-> "progress", progress |-> n]

ErrorMsg(m) == [type |-> "error", success |-> FALSE, error |-> m]

CompleteMsg(geometry, isASCII) ==
    [type          |-> "complete",
     success       |-> TRUE,
     vertices      |-> geometry.vertices,
     normals       |-> geometry.normals,
     vertexCount   |-> Div(Len(geometry.vertices), 3),
     triangleCount |-> Div(Len(geometry.vertices), 9),
     format        |-> IF isASCII THEN "ASCII" ELSE "Binary"]

NoGeometry == [vertices |-> <<>>, normals |-> <<>>]

IsTerminal(m) == m.type \in {"complete", "error"}
IsProgress(m) == m.type = "progress"

\* a Worker object and the state of its script; pc "none": not created yet
NoWorker ==
    [pc |-> "none", terminated |-> FALSE, inbox |-> <<>>,
     arrayBuffer |-> <<>>, fileName |-> <<>>, isASCII |-> FALSE,
     text |-> <<>>, lastIndex |-> 0, triangleCount |-> 0,
     vertices |-> <<>>, normals |-> <<>>, i |-> 0, offset |-> 0,
     progressInterval |-> 0, geometry |-> NoGeometry, emitted |-> <<>>]

Running(k) ==
    /\ k \in 1..Len(workers)
    /\ workers[k].pc \notin {"none", "failed"}
    /\ ~workers[k].terminated

\* worker k is at the given place of its script
In(k, place) == Running(k) /\ workers[k].pc = place

\* the conditions under which each step of the worker is taken
\* (a message is taken when the script is loaded, or has returned from the
\* message before)
CanStart(k)        == (In(k, "idle") \/ In(k, "done")) /\ workers[k].inbox # <<>>
CanSniff(k)        == In(k, "sniff")
CanStartAscii(k)   == In(k, "parseAscii")
CanExec(k)         == In(k, "asciiLoop")
CanStartBinary(k)  == In(k, "parseBinary")
CanReadRecord(k)   == In(k, "binaryLoop") /\ workers[k].i < workers[k].triangleCount
CanReturnBinary(k) == In(k, "binaryLoop") /\ workers[k].i >= workers[k].triangleCount
CanPost90(k)       == In(k, "post90")
CanComplete(k)     == In(k, "complete")

CanStep(k) ==
    \/ CanStart(k) \/ CanSniff(k) \/ CanStartAscii(k) \/ CanExec(k)
    \/ CanStartBinary(k) \/ CanReadRecord(k) \/ CanReturnBinary(k)
    \/ CanPost90(k) \/ CanComplete(k)

\* the worker goes on as w and posts msgs to the page
WorkerStep(k, w, msgs) ==
    /\ workers' = [workers EXCEPT ![k] = [w EXCEPT !.emitted = @ \o msgs]]
    /\ chan' = [chan EXCEPT ![k] = @ \o msgs]
    /\ UNCHANGED <<cfg, pageVars, delivered, ap>>

\* a catch that posts nothing
CaughtSilently(k, m) ==
    WorkerStep(k, [workers[k] EXCEPT !.pc = "done"], <<>>)

\* a throw inside the try block: the catch posts the error event
Caught(k, m) ==
    WorkerStep(k, [workers[k] EXCEPT !.pc = "done"], <<ErrorMsg(m)>>)

\* lines 7-12: the message is taken, progress 10 is posted
onmessageStart(k) ==
    /\ CanStart(k)
    /\ LET data == Head(workers[k].inbox)
       IN  WorkerStep(k, [workers[k] EXCEPT !.pc = "sniff",
                                            !.inbox = Tail(@),
                                            !.arrayBuffer = data.arrayBuffer,
                                            !.fileName = data.fileName],
                      <<ProgressMsg(10)>>)

\* the format taken as ASCII for the names in lower case only
onmessageSniffByName(k) ==
    /\ CanSniff(k)
    /\ LET isASCII == /\ isAsciiSTL(workers[k].arrayBuffer)
                      /\ workers[k].fileName = toLowerCase(workers[k].fileName)
       IN  WorkerStep(k, [workers[k] EXCEPT
                            !.pc = IF isASCII THEN "parseAscii" ELSE "parseBinary",
                            !.isASCII = isASCII],
                      <<ProgressMsg(20)>>)

\* lines 15-18: the format is sniffed, progress 20 is posted
onmessageSniff(k) ==
    /\ CanSniff(k)
    /\ LET isASCII == isAsciiSTL(workers[k].arrayBuffer)
       IN  WorkerStep(k, [workers[k] EXCEPT
                            !.pc = IF isASCII THEN "parseAscii" ELSE "parseBinary",
                            !.isASCII = isASCII],
                      <<ProgressMsg(20)>>)

\* the two lists kept from one call of parseAsciiSTL to the next
parseAsciiStartSharedLists(k) ==
    /\ CanStartAscii(k)
    /\ WorkerStep(k, [workers[k] EXCEPT !.pc = "asciiLoop",
                                        !.text = Decode(workers[k].arrayBuffer),
                                        !.lastIndex = 0,
                                        !.triangleCount = 0],
                  <<>>)

\* lines 69-77
parseAsciiStart(k) ==
    /\ CanStartAscii(k)
    /\ WorkerStep(k, [workers[k] EXCEPT !.pc = "asciiLoop",
                                        !.text = Decode(workers[k].arrayBuffer),
                                        !.vertices = <<>>,
                                        !.normals = <<>>,
                                        !.lastIndex = 0,
                                        !.triangleCount = 0],
                  <<>>)

AsciiProgressEvery == 10000
AsciiProgressScale == 100000

\* line 102: 20 + (triangleCount / 100000) * 50, at multiples of 10000 (the
\* double arithmetic is exact up to 400000 triangles)
AsciiProgress(triangleCount) == 20 + (triangleCount * 50) \div AsciiProgressScale

\* the normal pushed once per facet
AsciiNormalsOnce(g) == [j \in 1..3 |-> parseFloat(g[j])]

\* the three vertices pushed last to first
AsciiVerticesReversed(g) ==
    [j \in 1..9 |-> parseFloat(g[3 + 3 * (2 - (j - 1) \div 3) + ((j - 1) % 3) + 1])]

\* lines 82-96: the pushes of one match
AsciiVertices(g) == [j \in 1..9 |-> parseFloat(g[3 + j])]
AsciiNormals(g)  == [j \in 1..9 |-> parseFloat(g[((j - 1) % 3) + 1])]

\* lines 106-109: new Float32Array(list)
Float32Array(list) == [j \in 1..Len(list) |-> Float32(list[j])]

\* lines 80-109: one facetPattern.exec(text); a match is pushed, the null
\* result ends the loop and parseAsciiSTL returns
parseAsciiExec(k) ==
    /\ CanExec(k)
    /\ LET w     == workers[k]
           match == exec(facetPattern, w.text, w.lastIndex)
           count == w.triangleCount + 1
       IN  IF match.found
           THEN WorkerStep(k, [w EXCEPT
                                 !.lastIndex = match.lastIndex,
                                 !.vertices = @ \o AsciiVertices(match.groups),
                                 !.normals = @ \o AsciiNormals(match.groups),
                                 !.triangleCount = count],
                           IF count % AsciiProgressEvery = 0
                           THEN <<ProgressMsg(AsciiProgress(count))>>
                           ELSE <<>>)
           ELSE WorkerStep(k, [w EXCEPT
                                 !.pc = "post90",
                                 !.geometry = [vertices |-> Float32Array(w.vertices),
                                               normals  |-> Float32Array(w.normals)]],
                           <<>>)

BinaryCountOffset == 80
BinaryDataOffset  == 84

\* new Float32Array(triangleCount * 9) twice: buffers of 600 MB and more may
\* not be allocated
AllocMayFail(triangleCount) == triangleCount >= 16777216

\* an event at every triangle
ProgressIntervalOne(triangleCount) == 1

\* line 130
ProgressInterval(triangleCount) == Max(1, triangleCount \div 50)

\* the loop's share of the progress taken as 100
BinaryProgressTo100(i, triangleCount) == 20 + (i * 100) \div triangleCount

\* line 163: 20 + Math.floor((i / triangleCount) * 70); the double product
\* is the exact one but for i/triangleCount = 47/70, which gives 46
BinaryProgress(i, triangleCount) ==
    20 + (IF i % 47 = 0 /\ triangleCount = (i \div 47) * 70
          THEN 46
          ELSE (i * 70) \div triangleCount)

\* lines 113-130: the count is read, the arrays are allocated.  The arrays
\* are written front to back, so the model keeps the written prefix; the
\* zero-filled rest is materialised when parseBinarySTL returns.
parseBinaryStart(k) ==
    /\ CanStartBinary(k)
    /\ LET w == workers[k]
       IN  IF ~InBounds(w.arrayBuffer, BinaryCountOffset, 4)
           THEN Caught(k, MsgOutOfBounds)
           ELSE LET triangleCount == getUint32(w.arrayBuffer, BinaryCountOffset)
                IN  \/ /\ AllocMayFail(triangleCount)
                       /\ Caught(k, MsgAllocation)
                    \/ WorkerStep(k, [w EXCEPT
                                        !.pc = "binaryLoop",
                                        !.triangleCount = triangleCount,
                                        !.vertices = <<>>,
                                        !.normals = <<>>,
                                        !.offset = BinaryDataOffset,
                                        !.progressInterval = ProgressInterval(triangleCount),
                                        !.i = 0],
                                     <<>>)

\* lines 134-136: the normal of the record at offset
RecordNormal(bytes, offset) ==
    [c \in 1..3 |-> getFloat32(bytes, offset + 4 * (c - 1))]

\* the vertices read without the 12 bytes of the normal skipped
RecordVerticesNoSkip(bytes, offset) ==
    [c \in 1..9 |-> getFloat32(bytes, offset + 4 * (c - 1))]

\* lines 142-148: vertices[idx .. idx+2] for j = 0, 1, 2, in order
RecordVertices(bytes, offset) ==
    [c \in 1..9 |-> getFloat32(bytes, offset + 12 + 4 * (c - 1))]

\* the components of the normal spread over the vertices
RepeatNormalByComponent(n) == [c \in 1..9 |-> n[((c - 1) \div 3) + 1]]

\* lines 151-153: the normal, once per vertex
RepeatNormal(n) == [c \in 1..9 |-> n[((c - 1) % 3) + 1]]

\* bytes of a record the loop reads: offsets offset .. offset + 47
RecordRead == 48

\* the attribute bytes not skipped
NextRecordNoSkip(offset) == offset + 12 + 3 * 12

\* lines 137, 148, 157: offset += 12, three times offset += 12, offset += 2
NextRecord(offset) == offset + 12 + 3 * 12 + 2

\* lines 132-166: one iteration of the loop.  The reads are consecutive and
\* ascending, so one of them throws exactly when the last one does; the
\* arrays are locals, unreachable after the throw.
parseBinaryRecord(k) ==
    /\ CanReadRecord(k)
    /\ LET w == workers[k]
       IN  IF ~InBounds(w.arrayBuffer, w.offset, RecordRead)
           THEN Caught(k, MsgOutOfBounds)
           ELSE WorkerStep(k, [w EXCEPT
                                 !.vertices = @ \o RecordVertices(w.arrayBuffer, w.offset),
                                 !.normals = @ \o RepeatNormal(RecordNormal(w.arrayBuffer, w.offset)),
                                 !.offset = NextRecord(@),
                                 !.i = @ + 1],
                           IF w.i % w.progressInterval = 0
                           THEN <<ProgressMsg(BinaryProgress(w.i, w.triangleCount))>>
                           ELSE <<>>)

\* the length of each of the two arrays (line 126, 127)
AllocLength(triangleCount) == triangleCount * 9

\* a typed array of the given length after the writes: a write past the
\* length is ignored, an element never written is 0
TypedArray(length, written) ==
    [j \in 1..length |-> IF j <= Len(written) THEN written[j] ELSE F0]

\* lines 132, 168-171: the loop ends, parseBinarySTL returns
parseBinaryReturn(k) ==
    /\ CanReturnBinary(k)
    /\ LET w == workers[k]
           n == AllocLength(w.triangleCount)
       IN  WorkerStep(k, [w EXCEPT
                            !.pc = "post90",
                            !.geometry = [vertices |-> TypedArray(n, w.vertices),
                                          normals  |-> TypedArray(n, w.normals)]],
                      <<>>)

\* progress 90 posted though the terminal event is out
onmessagePost90Always(k) ==
    /\ Running(k)
    /\ workers[k].pc \in {"post90", "done"}
    /\ ~IsProgress(Last(workers[k].emitted))
    /\ WorkerStep(k, [workers[k] EXCEPT !.pc = IF @ = "done" THEN "done" ELSE "complete"],
                  <<ProgressMsg(90)>>)

\* line 27
onmessagePost90(k) ==
    /\ CanPost90(k)
    /\ WorkerStep(k, [workers[k] EXCEPT !.pc = "complete"], <<ProgressMsg(90)>>)

\* lines 30-38: the result is posted, the two buffers are transferred
onmessageComplete(k) ==
    /\ CanComplete(k)
    /\ LET w == workers[k]
       IN  WorkerStep(k, [w EXCEPT !.pc = "done",
                                   !.geometry = [vertices |-> Detached(@.vertices),
                                                 normals  |-> Detached(@.normals)]],
                      <<CompleteMsg(w.geometry, w.isASCII)>>)

WorkerNext(k) ==
    \/ onmessageStart(k)
    \/ onmessageSniff(k)
    \/ parseAsciiStart(k)
    \/ parseAsciiExec(k)
    \/ parseBinaryStart(k)
    \/ parseBinaryRecord(k)
    \/ parseBinaryReturn(k)
    \/ onmessagePost90(k)
    \/ onmessageComplete(k)

-----------------------------------------------------------------------------
(* The page: Index *)

NoModel == [none |-> TRUE]

Toast(title, description, variant) ==
    [title |-> title, description |-> description, variant |-> variant]

EndsWith(t, suffix) ==
    Len(t) >= Len(suffix) /\ SubSeq(t, Len(t) - Len(suffix) + 1, Len(t)) = suffix

\* (x).toFixed(2) of x = n / d, in hundredths
ToFixed2(n, d) == (200 * n + d) \div (2 * d)

\* lines 34-38
formatFileSize(bytes) ==
    IF bytes < 1024 THEN [value |-> bytes, unit |-> " B"]
    ELSE IF bytes < 1024 * 1024
         THEN [hundredths |-> ToFixed2(bytes, 1024), unit |-> " KB"]
         ELSE [hundredths |-> ToFixed2(bytes \div 1024, 1024), unit |-> " MB"]

\* FileUploader is rendered while there is no model (Index, lines 244-256) and
\* takes no input while loading (FileUploader, lines 50, 61)
UploaderEnabled == modelData = NoModel /\ ~loading

\* the messages of a terminated worker left in the queue
DiscardNothing(ch, k) == ch

\* worker.terminate(): the script stops, its queued messages are discarded
Terminate(ws, k) == [ws EXCEPT ![k].terminated = TRUE]
Discard(ch, k)   == [ch EXCEPT ![k] = <<>>]

\* a file can be handed to the page: the uploader takes input, or the
\* callbacks are called whatever the page shows (cfg.overlap)
CanSelect ==
    /\ cfg.overlap \/ UploaderEnabled
    /\ Len(loads) < cfg.maxLoads

\* the loading state entered before the name is looked at
handleFileSelectLoadingFirst(file) ==
    /\ CanSelect
    /\ loading' = TRUE
    /\ progress' = 5
    /\ status' = "Reading file..."
    /\ IF ~EndsWith(toLowerCase(file.name), dotStl)
       THEN /\ toasts' = Append(toasts, Toast("Invalid file type",
                                  "Please upload a valid STL file.", "destructive"))
            /\ loads' = Append(loads, [file |-> file, pc |-> "rejected", loaded |-> 0,
                                       arrayBuffer |-> <<>>])
       ELSE /\ loads' = Append(loads, [file |-> file, pc |-> "reading", loaded |-> 0,
                                       arrayBuffer |-> <<>>])
            /\ UNCHANGED toasts
    /\ workers' = Append(workers, NoWorker)
    /\ chan' = Append(chan, <<>>)
    /\ delivered' = Append(delivered, <<>>)
    /\ UNCHANGED <<cfg, modelData, workerRef, uncaught, timers, ap>>

\* lines 40-75: the call, up to the await of the file read
handleFileSelect(file) ==
    /\ CanSelect
    /\ IF ~EndsWith(toLowerCase(file.name), dotStl)
       THEN /\ toasts' = Append(toasts, Toast("Invalid file type",
                                  "Please upload a valid STL file.", "destructive"))
            /\ loads' = Append(loads, [file |-> file, pc |-> "rejected", loaded |-> 0,
                                       arrayBuffer |-> <<>>])
            /\ UNCHANGED <<loading, progress, status>>
       ELSE /\ loading' = TRUE
            /\ progress' = 5
            /\ status' = "Reading file..."
            /\ loads' = Append(loads, [file |-> file, pc |-> "reading", loaded |-> 0,
                                       arrayBuffer |-> <<>>])
            /\ UNCHANGED toasts
    /\ workers' = Append(workers, NoWorker)
    /\ chan' = Append(chan, <<>>)
    /\ delivered' = Append(delivered, <<>>)
    /\ UNCHANGED <<cfg, modelData, workerRef, uncaught, timers, ap>>

\* FileUploader, lines 36-41: the file chosen in the input is passed on
handleFileInput(file) == handleFileSelect(file)

\* FileUploader, lines 24-34: the first dropped file named .stl is passed on;
\* a drop holding none is ignored (loads records it with no effect)
handleDrop(files) ==
    LET stl == SelectSeq(files, LAMBDA f : EndsWith(toLowerCase(f.name), dotStl))
    IN  IF stl # <<>>
        THEN handleFileSelect(Head(stl))
        ELSE /\ CanSelect
             /\ loads' = Append(loads, [file |-> Head(files), pc |-> "ignored",
                                        loaded |-> 0, arrayBuffer |-> <<>>])
             /\ workers' = Append(workers, NoWorker)
             /\ chan' = Append(chan, <<>>)
             /\ delivered' = Append(delivered, <<>>)
             /\ UNCHANGED <<cfg, loading, progress, status, modelData, workerRef,
                            toasts, uncaught, timers, ap>>

\* lines 59-64: reader.onprogress, with loaded growing up to the file size
\* (files of no bytes report no computable length)
readerProgress(k) ==
    /\ loads[k].pc = "reading"
    /\ LET total == Len(loads[k].file.bytes)
       IN  /\ total > 0
           /\ \E loaded \in {(total + 1) \div 2, total} :
                /\ loaded > loads[k].loaded
                /\ progress' = 5 + (loaded * 30) \div total
                /\ loads' = [loads EXCEPT ![k].loaded = loaded]
    /\ UNCHANGED <<cfg, loading, status, modelData, workerRef, toasts, uncaught,
                   workers, chan, delivered, timers, ap>>

\* the worker created without the existing one being terminated
readerLoadKeepWorker(k) ==
    /\ loads[k].pc = "reading"
    /\ progress' = 35
    /\ status' = "Parsing STL geometry..."
    /\ workers' = [workers EXCEPT ![k] =
                      [NoWorker EXCEPT !.pc = "idle",
                                       !.inbox = <<[arrayBuffer |-> loads[k].file.bytes,
                                                    fileName |-> loads[k].file.name]>>]]
    /\ workerRef' = k
    /\ loads' = [loads EXCEPT ![k].pc = "posted",
                              ![k].arrayBuffer = Detached(loads[k].file.bytes)]
    /\ UNCHANGED <<cfg, loading, modelData, toasts, uncaught, chan, delivered,
                   timers, ap>>

\* lines 66-68, 78-158: reader.onload resolves the promise and the call goes on:
\* the worker is created and the bytes are transferred to it; the page's
\* arrayBuffer (loads[k].arrayBuffer) is what the transfer leaves of it
readerLoad(k) ==
    /\ loads[k].pc = "reading"
    /\ progress' = 35
    /\ status' = "Parsing STL geometry..."
    /\ LET old == IF workerRef # 0 THEN Terminate(workers, workerRef) ELSE workers
           ch  == IF workerRef # 0 THEN Discard(chan, workerRef) ELSE chan
           msg == [arrayBuffer |-> loads[k].file.bytes, fileName |-> loads[k].file.name]
       IN  /\ workers' = [old EXCEPT ![k] = [NoWorker EXCEPT !.pc = "idle",
                                                              !.inbox = <<msg>>]]
           /\ chan' = ch
    /\ workerRef' = k
    /\ loads' = [loads EXCEPT ![k].pc = "posted",
                              ![k].arrayBuffer = Detached(loads[k].file.bytes)]
    /\ UNCHANGED <<cfg, loading, modelData, toasts, uncaught, delivered, timers, ap>>

\* lines 160-175: the catch of handleFileSelect
CatchLoad(message) ==
    /\ toasts' = Append(toasts, Toast("Error loading file", message, "destructive"))
    /\ loading' = FALSE
    /\ progress' = 0
    /\ status' = ""
    /\ IF workerRef # 0
       THEN /\ workers' = Terminate(workers, workerRef)
            /\ chan' = Discard(chan, workerRef)
            /\ workerRef' = 0
       ELSE UNCHANGED <<workers, chan, workerRef>>

\* line 74: reader.onerror rejects the promise
readerError(k) ==
    /\ loads[k].pc = "reading"
    /\ CatchLoad("File reading failed")
    /\ loads' = [loads EXCEPT ![k].pc = "failed"]
    /\ UNCHANGED <<cfg, modelData, uncaught, delivered, timers, ap>>

\* e.data.error || 'Unknown error'
OrUnknown(m) == IF m = "" THEN "Unknown error" ELSE m

\* lines 90-139: worker.onmessage.  A throw in this handler is outside the
\* try block of handleFileSelect, which returned when the message was posted:
\* the error is reported as uncaught and nothing else happens.
workerOnMessage(k) ==
    /\ Running(k)
    /\ chan[k] # <<>>
    /\ LET data == Head(chan[k])
       IN  /\ chan' = [chan EXCEPT ![k] = Tail(@)]
           /\ delivered' = [delivered EXCEPT ![k] = Append(@, data)]
           /\ CASE data.type = "progress" ->
                     /\ progress' = data.progress
                     /\ UNCHANGED <<status, timers, uncaught>>
                [] data.type = "complete" ->
                     IF data.success
                     THEN /\ progress' = 95
                          /\ status' = "Rendering model..."
                          /\ timers' = timers \cup {[kind |-> "render", load |-> k,
                                                     data |-> data]}
                          /\ UNCHANGED uncaught
                     ELSE /\ uncaught' = Append(uncaught, "Parsing failed")
                          /\ UNCHANGED <<progress, status, timers>>
                [] OTHER ->
                     /\ uncaught' = Append(uncaught, OrUnknown(data.error))
                     /\ UNCHANGED <<progress, status, timers>>
    /\ UNCHANGED <<cfg, loading, modelData, workerRef, toasts, loads, workers, ap>>

\* lines 106-124: the first timer of a success
timerRender(k) ==
    \E t \in timers :
        /\ t.kind = "render"
        /\ t.load = k
        /\ modelData' = [vertices    |-> t.data.vertices,
                         normals     |-> t.data.normals,
                         fileName    |-> loads[k].file.name,
                         triangles   |-> t.data.triangleCount,
                         vertexCount |-> IF t.data.triangleCount \in Int
                                         THEN t.data.triangleCount * 3
                                         ELSE <<t.data.triangleCount, "* 3">>,
                         format      |-> t.data.format,
                         fileSize    |-> formatFileSize(Len(loads[k].file.bytes))]
        /\ progress' = 100
        /\ status' = "Complete!"
        /\ toasts' = Append(toasts, Toast("Model loaded successfully",
                              <<t.data.triangleCount, " triangles loaded">>, "default"))
        /\ timers' = (timers \ {t}) \cup {[kind |-> "finish", load |-> k]}
        /\ UNCHANGED <<cfg, loading, workerRef, uncaught, loads, workers, chan,
                       delivered, ap>>

\* lines 125-129: the second timer
timerFinish(k) ==
    /\ [kind |-> "finish", load |-> k] \in timers
    /\ timers' = timers \ {[kind |-> "finish", load |-> k]}
    /\ loading' = FALSE
    /\ progress' = 0
    /\ status' = ""
    /\ UNCHANGED <<cfg, modelData, workerRef, toasts, uncaught, loads, workers,
                   chan, delivered, ap>>

\* lines 141-152: worker.onerror, fired when the worker script cannot be
\* loaded or run (every throw of self.onmessage is caught in the worker)
workerOnError(k) ==
    /\ Running(k)
    /\ workers[k].pc = "idle"
    /\ toasts' = Append(toasts, Toast("Parsing failed",
                          "Unable to parse STL file. The file may be corrupted.",
                          "destructive"))
    /\ loading' = FALSE
    /\ progress' = 0
    /\ status' = ""
    /\ workers' = [Terminate(workers, k) EXCEPT ![k].pc = "failed"]
    /\ chan' = Discard(chan, k)
    /\ UNCHANGED <<cfg, modelData, workerRef, uncaught, loads, delivered, timers, ap>>

\* lines 178-190; the button is rendered while there is a model (lines 290-297)
handleUploadNewFile ==
    /\ modelData # NoModel
    /\ modelData' = NoModel
    /\ IF workerRef # 0
       THEN /\ workers' = Terminate(workers, workerRef)
            /\ chan' = Discard(chan, workerRef)
            /\ workerRef' = 0
       ELSE UNCHANGED <<workers, chan, workerRef>>
    /\ UNCHANGED <<cfg, loading, progress, status, toasts, uncaught, loads,
                   delivered, timers, ap>>

-----------------------------------------------------------------------------
(* The specification *)

NoAp == [pc |-> "none"]

Init ==
    /\ cfg = [files |-> "all", maxLoads |-> 1, overlap |-> FALSE]
    /\ loading = FALSE
    /\ progress = 0
    /\ status = ""
    /\ modelData = NoModel
    /\ workerRef = 0
    /\ toasts = <<>>
    /\ uncaught = <<>>
    /\ loads = <<>>
    /\ workers = <<>>
    /\ chan = <<>>
    /\ delivered = <<>>
    /\ timers = {}
    /\ ap = NoAp

Next ==
    \/ CanSelect /\ \E file \in FilesOf(cfg.files) : handleFileInput(file)
    \/ CanSelect /\ \E files \in DropsOf(cfg.files) : handleDrop(files)
    \/ \E k \in 1..Len(loads) :
          \/ readerProgress(k)
          \/ readerLoad(k)
          \/ readerError(k)
          \/ WorkerNext(k)
          \/ workerOnMessage(k)
          \/ workerOnError(k)
          \/ timerRender(k)
          \/ timerFinish(k)
    \/ handleUploadNewFile

Spec == Init /\ [][Next]_vars

\* The callbacks of Index called in any order: handleFileSelect is called
\* whatever the page shows, so that file reads and decodes overlap, up to
\* MaxLoads times, on the files of PageFiles.
MaxLoads == 2

InitOverlap ==
    /\ cfg = [files |-> "page", maxLoads |-> MaxLoads, overlap |-> TRUE]
    /\ loading = FALSE
    /\ progress = 0
    /\ status = ""
    /\ modelData = NoModel
    /\ workerRef = 0
    /\ toasts = <<>>
    /\ uncaught = <<>>
    /\ loads = <<>>
    /\ workers = <<>>
    /\ chan = <<>>
    /\ delivered = <<>>
    /\ timers = {}
    /\ ap = NoAp

SpecOverlap == InitOverlap /\ [][Next]_vars

-----------------------------------------------------------------------------
(* The progress events of an ASCII decode, by the number of facets.           *)
(* A text of several hundred thousand facets is given by the number of        *)
(* matches facetPattern has in it (ap.facets), the two lists by their         *)
(* lengths.  The steps are those of self.onmessage and parseAsciiSTL; the     *)
(* iterations of the loop between two progress events are one step.           *)

FacetStep     == 5000   \* the texts hold a multiple of FacetStep facets
MaxFacetSteps == 40     \* up to FacetStep * MaxFacetSteps facets

FacetCounts == { n * FacetStep : n \in 0..MaxFacetSteps }

ApPost(a, msgs) == ap' = [a EXCEPT !.emitted = @ \o msgs]

\* lines 7-12
apStart ==
    /\ ap.pc = "start"
    /\ ApPost([ap EXCEPT !.pc = "sniff"], <<ProgressMsg(10)>>)
    /\ UNCHANGED <<cfg, pageVars, workers, chan, delivered>>

\* lines 15-22: the text is one isAsciiSTL classifies as ASCII
apSniff ==
    /\ ap.pc = "sniff"
    /\ ApPost([ap EXCEPT !.pc = "asciiLoop"], <<ProgressMsg(20)>>)
    /\ UNCHANGED <<cfg, pageVars, workers, chan, delivered>>

\* lines 80-104: the matches up to the next progress event, or to the last one
apLoop ==
    /\ ap.pc = "asciiLoop"
    /\ ap.triangleCount < ap.facets
    /\ LET count == Min(ap.facets,
                        (ap.triangleCount \div AsciiProgressEvery + 1) * AsciiProgressEvery)
       IN  ApPost([ap EXCEPT !.triangleCount = count,
                             !.verticesLength = @ + 9 * (count - ap.triangleCount),
                             !.normalsLength = @ + 9 * (count - ap.triangleCount)],
                  IF count % AsciiProgressEvery = 0
                  THEN <<ProgressMsg(AsciiProgress(count))>>
                  ELSE <<>>)
    /\ UNCHANGED <<cfg, pageVars, workers, chan, delivered>>

\* lines 80, 106-109: exec returns null
apReturn ==
    /\ ap.pc = "asciiLoop"
    /\ ap.triangleCount = ap.facets
    /\ ApPost([ap EXCEPT !.pc = "post90"], <<>>)
    /\ UNCHANGED <<cfg, pageVars, workers, chan, delivered>>

\* line 27
apPost90 ==
    /\ ap.pc = "post90"
    /\ ApPost([ap EXCEPT !.pc = "complete"], <<ProgressMsg(90)>>)
    /\ UNCHANGED <<cfg, pageVars, workers, chan, delivered>>

\* lines 30-38
apComplete ==
    /\ ap.pc = "complete"
    /\ ApPost([ap EXCEPT !.pc = "done"],
              <<[type |-> "complete", success |-> TRUE,
                 vertexCount |-> Div(ap.verticesLength, 3),
                 triangleCount |-> Div(ap.verticesLength, 9),
                 format |-> "ASCII"]>>)
    /\ UNCHANGED <<cfg, pageVars, workers, chan, delivered>>

InitAsciiCount ==
    /\ cfg = [files |-> "none", maxLoads |-> 0, overlap |-> FALSE]
    /\ loading = FALSE
    /\ progress = 0
    /\ status = ""
    /\ modelData = NoModel
    /\ workerRef = 0
    /\ toasts = <<>>
    /\ uncaught = <<>>
    /\ loads = <<>>
    /\ workers = <<>>
    /\ chan = <<>>
    /\ delivered = <<>>
    /\ timers = {}
    /\ \E n \in FacetCounts :
          ap = [pc |-> "start", facets |-> n, triangleCount |-> 0,
                verticesLength |-> 0, normalsLength |-> 0, emitted |-> <<>>]

NextAsciiCount ==
    \/ apStart
    \/ apSniff
    \/ apLoop
    \/ apReturn
    \/ apPost90
    \/ apComplete

SpecAsciiCount == InitAsciiCount /\ [][NextAsciiCount]_vars

-----------------------------------------------------------------------------
(* isAsciiSTL alone, on inputs built from a header, a length and one keyword. *)
(* ap holds the way the input was built, the input, and the classification.   *)

\* the first HeaderLength bytes of the inputs
PadHeader(text, pad) == text \o Repeat(pad, HeaderLength - Len(text))

SniffHeader(kind) ==
    CASE kind = "zero"       -> HeaderZero
      [] kind = "text"       -> PadHeader(<<98,105,110,97,114,121,32,109,111,100,101,108>>, 32)
      [] kind = "solid"      -> HeaderSolid
      [] kind = "spaceSolid" -> PadHeader(<<32, 9>> \o kwSolid \o <<32,109,111,100,101,108>>, 32)
      [] kind = "upperSolid" -> PadHeader(<<83,79,76,73,68,32,109,111,100,101,108>>, 32)
      [] kind = "solidLater" -> PadHeader(<<109,121,32>> \o kwSolid \o <<32,109,111,100,101,108>>, 32)
      [] kind = "solidBad"   -> PadHeader(kwSolid \o <<32, 255, 254>>, 32)
      [] OTHER               -> HeaderBad

SniffHeaderKinds ==
    {"zero", "text", "solid", "spaceSolid", "upperSolid", "solidLater", "solidBad", "bad"}

\* the lengths of the inputs, around 80, 100, 200, 1000 and 2000
SniffLengths == {0, 50, 80, 84, 100, 101, 199, 200, 1000, 1001, 2000, 2100}

\* the keyword written into the body and the offsets (0-based) it is written at
SniffTokens == {<<>>, kwFacet, kwVertex}
SniffOffsets == {80, 150, 990, 997, 1500, 1990}

\* the input: the header, then a body of '.' holding the keyword at the
\* offset when it fits, cut to n bytes
SniffInput(kind, n, tok, pos) ==
    [p \in 1..n |->
        IF p <= HeaderLength THEN SniffHeader(kind)[p]
        ELSE IF p - 1 >= pos /\ p - 1 < pos + Len(tok) /\ pos + Len(tok) <= n
             THEN tok[p - pos]
             ELSE 46]

InitSniff ==
    /\ cfg = [files |-> "none", maxLoads |-> 0, overlap |-> FALSE]
    /\ loading = FALSE
    /\ progress = 0
    /\ status = ""
    /\ modelData = NoModel
    /\ workerRef = 0
    /\ toasts = <<>>
    /\ uncaught = <<>>
    /\ loads = <<>>
    /\ workers = <<>>
    /\ chan = <<>>
    /\ delivered = <<>>
    /\ timers = {}
    /\ \E kind \in SniffHeaderKinds, n \in SniffLengths, tok \in SniffTokens,
          pos \in SniffOffsets :
          /\ tok = <<>> => pos = 80
          /\ ap = [pc |-> "input", kind |-> kind, n |-> n, tok |-> tok, pos |-> pos,
                   data |-> SniffInput(kind, n, tok, pos), isASCII |-> FALSE]

\* line 16: const isASCII = isAsciiSTL(view)
sniffClassify ==
    /\ ap.pc = "input"
    /\ ap' = [ap EXCEPT !.pc = "classified", !.isASCII = isAsciiSTL(ap.data)]
    /\ UNCHANGED <<cfg, pageVars, workers, chan, delivered>>

NextSniff == sniffClassify

SpecSniff == InitSniff /\ [][NextSniff]_vars

-----------------------------------------------------------------------------
(* The progress events of a binary decode, by the number of triangles.        *)
(* A binary file holding as many records as it declares is given by that      *)
(* number (ap.records); ap.at lists the loop indices a progress event was     *)
(* posted at.  The steps are those of self.onmessage and parseBinarySTL.      *)

MaxRecords == 250   \* the files declare and hold up to MaxRecords triangles

RecordCounts == 0..MaxRecords

\* lines 7-18, 113-130: progress 10, the file sniffs as binary, progress 20,
\* the count is read and the interval set
bcStart ==
    /\ ap.pc = "start"
    /\ ApPost([ap EXCEPT !.pc = "binaryLoop",
                         !.triangleCount = ap.records,
                         !.progressInterval = ProgressInterval(ap.records),
                         !.i = 0],
              <<ProgressMsg(10), ProgressMsg(20)>>)
    /\ UNCHANGED <<cfg, pageVars, workers, chan, delivered>>

\* lines 132-166: one iteration of the loop
bcRecord ==
    /\ ap.pc = "binaryLoop"
    /\ ap.i < ap.triangleCount
    /\ LET post == ap.i % ap.progressInterval = 0
       IN  ApPost([ap EXCEPT !.i = @ + 1,
                             !.at = IF post THEN Append(@, ap.i) ELSE @],
                  IF post
                  THEN <<ProgressMsg(BinaryProgress(ap.i, ap.triangleCount))>>
                  ELSE <<>>)
    /\ UNCHANGED <<cfg, pageVars, workers, chan, delivered>>

\* lines 132, 168-171, 27-38: the loop ends, progress 90, the result
bcFinish ==
    /\ ap.pc = "binaryLoop"
    /\ ap.i = ap.triangleCount
    /\ ApPost([ap EXCEPT !.pc = "done"],
              <<ProgressMsg(90),
                [type |-> "complete", success |-> TRUE,
                 vertexCount |-> Div(AllocLength(ap.triangleCount), 3),
                 triangleCount |-> Div(AllocLength(ap.triangleCount), 9),
                 format |-> "Binary"]>>)
    /\ UNCHANGED <<cfg, pageVars, workers, chan, delivered>>

InitBinaryCount ==
    /\ cfg = [files |-> "none", maxLoads |-> 0, overlap |-> FALSE]
    /\ loading = FALSE
    /\ progress = 0
    /\ status = ""
    /\ modelData = NoModel
    /\ workerRef = 0
    /\ toasts = <<>>
    /\ uncaught = <<>>
    /\ loads = <<>>
    /\ workers = <<>>
    /\ chan = <<>>
    /\ delivered = <<>>
    /\ timers = {}
    /\ \E n \in RecordCounts :
          ap = [pc |-> "start", records |-> n, triangleCount |-> 0,
                progressInterval |-> 0, i |-> 0, at |-> <<>>, emitted |-> <<>>]

NextBinaryCount ==
    \/ bcStart
    \/ bcRecord
    \/ bcFinish

SpecBinaryCount == InitBinaryCount /\ [][NextBinaryCount]_vars

-----------------------------------------------------------------------------
(* The worker alone, given the same bytes twice: in two messages to one       *)
(* worker (ap.same) or in one message to each of two workers.  The two        *)
(* messages carry the names ap.names.                                         *)

\* the files given twice: binary files whole or one byte short, the files
\* too short for the count, ASCII texts of well-formed and malformed facets
TwiceContents ==
    { BinaryFile(HeaderZero, c, Records(v, n), cut) :
        v \in 1..2, c \in DeclaredCounts, n \in 0..MaxTri, cut \in {0, 1} }
      \cup ShortFiles \cup {AsciiUpperFile, AsciiMixedFile}
      \cup { SolidLine \o Flatten(blocks) \o EndSolidLine :
               blocks \in SeqsUpTo({FacetG1, FacetB2}, MaxFacets) }

TwiceNames == {<<NameLower, NameLower>>, <<NameLower, NameUpper>>}

SubmitMsg(bytes, name) == [arrayBuffer |-> bytes, fileName |-> name]

PostedLoad(bytes, name) ==
    [file |-> File(name, bytes), pc |-> "posted", loaded |-> Len(bytes),
     arrayBuffer |-> Detached(bytes)]

InitTwice ==
    /\ cfg = [files |-> "none", maxLoads |-> 0, overlap |-> FALSE]
    /\ loading = FALSE
    /\ progress = 0
    /\ status = ""
    /\ modelData = NoModel
    /\ workerRef = 0
    /\ toasts = <<>>
    /\ uncaught = <<>>
    /\ delivered = <<>>
    /\ timers = {}
    /\ \E bytes \in TwiceContents, names \in TwiceNames, same \in BOOLEAN :
          /\ ap = [pc |-> "twice", same |-> same, names |-> names]
          /\ loads = IF same
                     THEN <<PostedLoad(bytes, names[1])>>
                     ELSE <<PostedLoad(bytes, names[1]), PostedLoad(bytes, names[2])>>
          /\ workers =
               IF same
               THEN <<[NoWorker EXCEPT !.pc = "idle",
                                       !.inbox = <<SubmitMsg(bytes, names[1]),
                                                   SubmitMsg(bytes, names[2])>>]>>
               ELSE <<[NoWorker EXCEPT !.pc = "idle",
                                       !.inbox = <<SubmitMsg(bytes, names[1])>>],
                      [NoWorker EXCEPT !.pc = "idle",
                                       !.inbox = <<SubmitMsg(bytes, names[2])>>]>>
          /\ chan = [k \in 1..Len(workers) |-> <<>>]

NextTwice == \E k \in 1..Len(workers) : WorkerNext(k)

SpecTwice == InitTwice /\ [][NextTwice]_vars

-----------------------------------------------------------------------------
(* A mesh written in the binary layout and given to the worker.  ap holds     *)
(* the mesh: vertices and normals of 9 floats a triangle, the normals one     *)
(* triple three times.                                                        *)

\* triangles: a normal and nine coordinates
Triangle(n, v) == [normal |-> n, vertices |-> v]

MeshTriangles ==
    { Triangle(<<F0, F0, F1>>, <<F0, F0, F0, F1, F0, F0, F0, F1, F0>>),
      Triangle(<<Fm25, Fw(1), F1>>,
               <<Fw(2), Fw(3), Fw(4), Fw(5), Fw(6), Fw(7), Fw(8), Fw(9), Fw(10)>>),
      Triangle(<<F0, FsNaN, F1>>, <<F0, F0, F0, F1, FNaN, F0, F0, F1, F0>>) }

MeshOf(triangles) ==
    [vertices |-> [j \in 1..(9 * Len(triangles)) |->
                      triangles[((j - 1) \div 9) + 1].vertices[((j - 1) % 9) + 1]],
     normals  |-> [j \in 1..(9 * Len(triangles)) |->
                      triangles[((j - 1) \div 9) + 1].normal[((j - 1) % 3) + 1]]]

Meshes == { MeshOf(ts) : ts \in SeqsUpTo(MeshTriangles, MaxTri) }

\* the attribute bytes written after each triangle
AttributeBytes == {<<0, 0>>, <<171, 65>>}

\* lines 115-121: the layout.  80 bytes of header, the count, and for each
\* triangle its normal, its three vertices and two attribute bytes
Encode(mesh, header, attr) ==
    LET T == Len(mesh.vertices) \div 9
    IN  header \o U32(T)
          \o FlattenRecords([i \in 1..T |->
                 Flatten(SubSeq(mesh.normals, 9 * (i - 1) + 1, 9 * (i - 1) + 3)
                           \o SubSeq(mesh.vertices, 9 * (i - 1) + 1, 9 * i))
                   \o attr])

InitRoundTrip ==
    /\ cfg = [files |-> "none", maxLoads |-> 0, overlap |-> FALSE]
    /\ loading = FALSE
    /\ progress = 0
    /\ status = ""
    /\ modelData = NoModel
    /\ workerRef = 0
    /\ toasts = <<>>
    /\ uncaught = <<>>
    /\ delivered = <<>>
    /\ timers = {}
    /\ \E mesh \in Meshes, header \in Headers, attr \in AttributeBytes :
          LET bytes == Encode(mesh, header, attr)
          IN  /\ ~isAsciiSTL(bytes)
              /\ ap = [pc |-> "mesh", vertices |-> mesh.vertices,
                       normals |-> mesh.normals]
              /\ loads = <<PostedLoad(bytes, NameLower)>>
              /\ workers = <<[NoWorker EXCEPT !.pc = "idle",
                                              !.inbox = <<SubmitMsg(bytes, NameLower)>>]>>
              /\ chan = <<<<>>>>

SpecRoundTrip == InitRoundTrip /\ [][NextTwice]_vars

-----------------------------------------------------------------------------
(* Events *)

Terminals(events) == SelectSeq(events, IsTerminal)

ProgressValues(events) ==
    LET ps == SelectSeq(events, IsProgress)
    IN  [j \in 1..Len(ps) |-> ps[j].progress]

NonDecreasing(values) ==
    \A j \in 1..(Len(values) - 1) : values[j] <= values[j + 1]

\* worker k has taken its submission message
Started(k) ==
    /\ k \in 1..Len(workers)
    /\ workers[k].pc \notin {"none", "idle", "failed"}

\* worker k has sniffed its input as binary / as ASCII
DecodedBinary(k) ==
    Started(k) /\ workers[k].pc # "sniff" /\ ~workers[k].isASCII

DecodedAscii(k) ==
    Started(k) /\ workers[k].pc # "sniff" /\ workers[k].isASCII

\* the bytes submitted to worker k
Submitted(k) == loads[k].file.bytes

\* the success event of worker k (when it has posted one)
HasSuccess(k) ==
    Started(k) /\ \E j \in 1..Len(workers[k].emitted) : workers[k].emitted[j].type = "complete"

Success(k) ==
    LET e == workers[k].emitted
    IN  e[CHOOSE j \in 1..Len(e) : e[j].type = "complete"]

HasError(k) ==
    Started(k) /\ \E j \in 1..Len(workers[k].emitted) : workers[k].emitted[j].type = "error"

-----------------------------------------------------------------------------
(* The worker's protocol *)

AtMostOneTerminal ==
    \A k \in 1..Len(workers) :
        Started(k) =>
            /\ Len(Terminals(workers[k].emitted)) <= 1
            /\ workers[k].pc = "done" <=> Len(Terminals(workers[k].emitted)) = 1

\* a worker holding a submission it has not answered can take a step
NeverStuck ==
    \A k \in 1..Len(workers) :
        (Running(k) /\ workers[k].pc # "done") => CanStep(k)

\* the steps a worker has left: the place in self.onmessage, then the
\* iterations its loop has left
PlaceRank(pc) ==
    CASE pc = "idle" -> 6
      [] pc = "sniff" -> 5
      [] pc \in {"parseAscii", "parseBinary"} -> 4
      [] pc \in {"asciiLoop", "binaryLoop"} -> 3
      [] pc = "post90" -> 2
      [] pc = "complete" -> 1
      [] OTHER -> 0

LoopRank(w) ==
    CASE w.pc = "binaryLoop" -> w.triangleCount - w.i
      [] w.pc = "asciiLoop" -> Len(w.text) - w.lastIndex
      [] OTHER -> 0

EveryStepCloser ==
    \A k \in 1..Len(workers) :
        (Running(k) /\ workers'[k] # workers[k] /\ ~workers'[k].terminated) =>
            /\ LoopRank(workers'[k]) >= 0
            /\ \/ PlaceRank(workers'[k].pc) < PlaceRank(workers[k].pc)
               \/ /\ PlaceRank(workers'[k].pc) = PlaceRank(workers[k].pc)
                  /\ LoopRank(workers'[k]) < LoopRank(workers[k])

\* C1: for every submission the worker emits exactly one terminal event, a
\* 'complete' or an 'error': never two, and never none (a worker that is not
\* terminated can always take its next step, every step brings it closer to
\* the end of self.onmessage, and at the end exactly one terminal event is out).
C1_ExactlyOneTerminal ==
    /\ [](AtMostOneTerminal /\ NeverStuck)
    /\ [][EveryStepCloser]_vars

\* a decode that posted in-loop progress and then failed
C1_Witness ==
    \E k \in 1..Len(workers) :
        /\ workers[k].pc = "done"
        /\ Len(workers[k].emitted) >= 4
        /\ Last(workers[k].emitted).type = "error"

\* C2: every progress event of a submission precedes its terminal event, and
\* the terminal event is the last event of the submission.
C2_TerminalIsLast ==
    \A k \in 1..Len(workers) :
        \A j \in 1..Len(workers[k].emitted) :
            IsTerminal(workers[k].emitted[j]) => j = Len(workers[k].emitted)

\* a failure after in-loop progress, all of it delivered to the page
C2_Witness ==
    \E k \in 1..Len(workers) :
        /\ HasError(k)
        /\ Len(workers[k].emitted) >= 4
        /\ delivered[k] = workers[k].emitted

-----------------------------------------------------------------------------
(* The page and a failed decode *)

\* C3: after the worker's error event the page treats the load as failed: it
\* shows the reason text of the event and leaves the loading state (loading
\* false, progress reset).
C3_ErrorEndsLoading ==
    \A k \in 1..Len(delivered) :
        \A j \in 1..Len(delivered[k]) :
            delivered[k][j].type = "error" =>
                /\ ~loading
                /\ progress = 0
                /\ \E t \in 1..Len(toasts) : toasts[t].description = delivered[k][j].error

-----------------------------------------------------------------------------
(* Progress *)

\* C4: the progress values of a binary decode, the fixed 10, 20 and 90
\* included, never decrease and are integers in 0..100.
C4_BinaryProgress ==
    \A k \in 1..Len(workers) :
        DecodedBinary(k) =>
            LET values == ProgressValues(workers[k].emitted)
            IN  /\ NonDecreasing(values)
                /\ \A j \in 1..Len(values) : values[j] \in 0..100

\* a binary decode whose progress interval is above 1, run to its success
C4_Witness ==
    \E k \in 1..Len(workers) :
        /\ DecodedBinary(k)
        /\ HasSuccess(k)
        /\ workers[k].progressInterval > 1
        /\ Len(ProgressValues(workers[k].emitted)) > 50

\* C5: the progress values of an ASCII decode, the fixed 10, 20 and 90
\* included, never decrease and never exceed 100.
C5_AsciiProgress ==
    LET values == ProgressValues(ap.emitted)
    IN  /\ NonDecreasing(values)
        /\ \A j \in 1..Len(values) : values[j] <= 100

-----------------------------------------------------------------------------
(* Failures *)

\* C6: an input of length 0 yields an error event and never a success event.
C6_EmptyInputFails ==
    \A k \in 1..Len(workers) :
        (Started(k) /\ Len(Submitted(k)) = 0) =>
            /\ ~HasSuccess(k)
            /\ workers[k].pc = "done" => HasError(k)

C6_Witness ==
    \E k \in 1..Len(workers) :
        /\ Started(k)
        /\ Len(Submitted(k)) = 0
        /\ workers[k].pc = "done"
        /\ HasError(k)

\* the declared count needs more bytes than the file has: 84 + 50 * T > N
Overrun(bytes) ==
    \/ Len(bytes) < BinaryDataOffset
    \/ getUint32(bytes, BinaryCountOffset) > (Len(bytes) - BinaryDataOffset) \div 50

\* C7: a binary input whose declared count needs more bytes than are present
\* (inputs shorter than 84 bytes included) yields a failure and no success.
C7_OverrunFails ==
    \A k \in 1..Len(workers) :
        (DecodedBinary(k) /\ Overrun(Submitted(k))) => ~HasSuccess(k)

-----------------------------------------------------------------------------
(* The binary layout *)

\* the float at the place c (1..12) of record i (0-based) of a file
RecordFloat(bytes, i, c) == getFloat32(bytes, BinaryDataOffset + 50 * i + 4 * (c - 1))

\* C8: for a valid binary input of T triangles both buffers have length 9T,
\* and the three normal triples of triangle i are the normal of record i.
C8_BinaryNormals ==
    \A k \in 1..Len(workers) :
        (DecodedBinary(k) /\ HasSuccess(k) /\ ~Overrun(Submitted(k))) =>
            LET T == getUint32(Submitted(k), BinaryCountOffset)
                m == Success(k)
            IN  /\ Len(m.vertices) = 9 * T
                /\ Len(m.normals) = 9 * T
                /\ \A i \in 0..(T - 1) : \A v \in 0..2 : \A c \in 1..3 :
                      m.normals[9 * i + 3 * v + c] = RecordFloat(Submitted(k), i, c)

\* two triangles or more, the first normal with differing components
C8_Witness ==
    \E k \in 1..Len(workers) :
        /\ DecodedBinary(k)
        /\ HasSuccess(k)
        /\ ~Overrun(Submitted(k))
        /\ getUint32(Submitted(k), BinaryCountOffset) >= 2
        /\ Success(k).normals[1] # Success(k).normals[3]
        /\ Success(k).normals[1] # Success(k).normals[2]

\* the 48 bytes read from record i (0-based) of a file, followed by two
\* attribute bytes of 0
RecordBytes(bytes, i) ==
    [p \in 1..50 |->
        IF p <= RecordRead /\ BinaryDataOffset + 50 * i + p <= Len(bytes)
        THEN bytes[BinaryDataOffset + 50 * i + p]
        ELSE 0]

\* C9: record i is read from bytes [84+50i, 84+50i+50): the offset advances
\* by 50 per record, vertex v of triangle i is at vertices[9i+3v .. 9i+3v+3)
\* in file order, and the buffers do not depend on the attribute bytes.
C9_BinaryRecords ==
    \A k \in 1..Len(workers) :
        /\ In(k, "binaryLoop") =>
              workers[k].offset = BinaryDataOffset + 50 * workers[k].i
        /\ (DecodedBinary(k) /\ HasSuccess(k)) =>
              LET T == getUint32(Submitted(k), BinaryCountOffset)
                  m == Success(k)
              IN  \A i \in 0..(T - 1) :
                      LET r == RecordBytes(Submitted(k), i)
                      IN  /\ \A v \in 0..2 : \A c \in 1..3 :
                                m.vertices[9 * i + 3 * v + c] = getFloat32(r, 4 * (2 + 3 * v + c))
                          /\ \A v \in 0..2 : \A c \in 1..3 :
                                m.normals[9 * i + 3 * v + c] = getFloat32(r, 4 * (c - 1))

\* two records or more decoded, one of them with attribute bytes that are not 0
C9_Witness ==
    \E k \in 1..Len(workers) :
        /\ DecodedBinary(k)
        /\ HasSuccess(k)
        /\ getUint32(Submitted(k), BinaryCountOffset) >= 2
        /\ \E i \in 0..(getUint32(Submitted(k), BinaryCountOffset) - 1) : \E a \in 49..50 :
              /\ BinaryDataOffset + 50 * i + a <= Len(Submitted(k))
              /\ Submitted(k)[BinaryDataOffset + 50 * i + a] # 0

-----------------------------------------------------------------------------
(* The success event *)

\* C10: in every success event, of either format, vertices and normals have
\* the same length, a multiple of 9, and triangleCount is that length / 9.
C10_SuccessLengths ==
    \A k \in 1..Len(workers) :
        HasSuccess(k) =>
            LET m == Success(k)
            IN  /\ Len(m.vertices) = Len(m.normals)
                /\ Len(m.vertices) % 9 = 0
                /\ m.triangleCount = Len(m.vertices) \div 9

\* an ASCII decode of two facets
C10_Witness ==
    \E k \in 1..Len(workers) :
        /\ DecodedAscii(k)
        /\ HasSuccess(k)
        /\ Success(k).triangleCount = 2
        /\ Success(k).format = "ASCII"

-----------------------------------------------------------------------------
(* The ASCII decode: which facets are accepted *)

kwEndfacet == <<101,110,100>> \o kwFacet

\* the positions of a text where a word starts
Occurrences(t, word) ==
    { s \in 1..(Len(t) - Len(word) + 1) : SubSeq(t, s, s + Len(word) - 1) = word }

\* the facet...endfacet region that ends with the endfacet at position e: the
\* text after the endfacet before it (from the start when there is none)
RegionOf(t, e) ==
    LET before == { x + Len(kwEndfacet) : x \in { y \in Occurrences(t, kwEndfacet) : y < e } }
        from   == IF before = {} THEN 1
                  ELSE CHOOSE x \in before : \A y \in before : y <= x
    IN  SubSeq(t, from, e - 1)

VertexLines(region) == Cardinality(Occurrences(region, kwVertex))
NormalLines(region) == Cardinality(Occurrences(region, kwNormal))

\* the regions with exactly one normal and exactly three vertices
WellFormedRegions(t) ==
    { e \in Occurrences(t, kwEndfacet) :
        NormalLines(RegionOf(t, e)) = 1 /\ VertexLines(RegionOf(t, e)) = 3 }

\* C11: for every ASCII input the reported triangleCount is the number of
\* facet...endfacet regions with exactly one normal and exactly three
\* vertices; any other region is not counted and adds no floats to the buffers.
C11_CountsWellFormedRegions ==
    \A k \in 1..Len(workers) :
        (DecodedAscii(k) /\ HasSuccess(k)) =>
            LET good == Cardinality(WellFormedRegions(Decode(Submitted(k))))
            IN  /\ Success(k).triangleCount = good
                /\ Len(Success(k).vertices) = 9 * good
                /\ Len(Success(k).normals) = 9 * good

\* printable characters and white space only
IsText(bytes) ==
    \A j \in 1..Len(bytes) : bytes[j] \in {9, 10, 13} \cup (32..126)

\* an ASCII file of facets with three vertex lines and facets with two: it is
\* text, starts with "solid", and each of its regions has one normal and
\* three or two vertices
GoodAndTwoVertexFacets(bytes) ==
    LET t == Decode(bytes)
    IN  /\ IsText(bytes)
        /\ Len(t) >= Len(kwSolid)
        /\ SubSeq(t, 1, Len(kwSolid)) = kwSolid
        /\ \A e \in Occurrences(t, kwEndfacet) :
              /\ NormalLines(RegionOf(t, e)) = 1
              /\ VertexLines(RegionOf(t, e)) \in {2, 3}

\* C12: a facet with only two vertex lines is skipped without failing the
\* decode: a file of well-formed facets and such facets, in any order, gives
\* a success event whose triangleCount is the number of well-formed facets.
C12_TwoVertexFacetSkipped ==
    \A k \in 1..Len(workers) :
        (Started(k) /\ GoodAndTwoVertexFacets(Submitted(k))) =>
            /\ ~HasError(k)
            /\ workers[k].pc = "done" =>
                  /\ HasSuccess(k)
                  /\ Success(k).triangleCount =
                        Cardinality(WellFormedRegions(Decode(Submitted(k))))

\* one good facet and one facet with two vertex lines, decoded: triangleCount 1
C12_Witness ==
    \E k \in 1..Len(workers) :
        /\ Started(k)
        /\ GoodAndTwoVertexFacets(Submitted(k))
        /\ LET t == Decode(Submitted(k))
           IN  /\ Cardinality(Occurrences(t, kwEndfacet)) = 2
               /\ Cardinality(WellFormedRegions(t)) = 1
        /\ workers[k].pc = "done"
        /\ HasSuccess(k)
        /\ Success(k).triangleCount = 1

-----------------------------------------------------------------------------
(* The ASCII decode: the order of the floats *)

\* the numbers written in the facets of the model's texts, as float32 words:
\* FacetG1 and FacetB4 (its first three vertices), FacetG2
WrittenVertices(region) ==
    IF Includes(region, SubSeq(FacetG2, 1, 40))
    THEN <<<<10, 215, 35, 60>>, <<0, 0, 128, 62>>, <<0, 0, 64, 192>>,
           <<0, 0, 64, 65>>, <<0, 0, 224, 64>>, <<0, 0, 52, 66>>,
           <<0, 0, 0, 63>>, <<0, 0, 200, 66>>, <<0, 0, 4, 66>>>>
    ELSE <<F0, F0, F0, F1, F0, F0, F0, F1, F0>>

WrittenNormal(region) ==
    IF Includes(region, SubSeq(FacetG2, 1, 40))
    THEN <<<<0, 0, 192, 191>>, <<0, 0, 0, 63>>, <<0, 0, 200, 65>>>>
    ELSE <<F0, F0, F1>>

\* the regions the decoder accepts: one normal, three vertices or more
AcceptedRegions(t) ==
    { e \in Occurrences(t, kwEndfacet) :
        NormalLines(RegionOf(t, e)) = 1 /\ VertexLines(RegionOf(t, e)) >= 3 }

\* C13: the k-th accepted facet of the text (k from 0) occupies floats
\* [9k, 9k+9) of vertices, its three vertices in the order they are written,
\* and the same 9 floats of normals are its normal three times.
C13_AsciiOrder ==
    \A k \in 1..Len(workers) :
        (DecodedAscii(k) /\ HasSuccess(k) /\ IsText(Submitted(k))) =>
            LET t        == Decode(Submitted(k))
                accepted == AcceptedRegions(t)
                m        == Success(k)
            IN  /\ Len(m.vertices) = 9 * Cardinality(accepted)
                /\ Len(m.normals) = 9 * Cardinality(accepted)
                /\ \A e \in accepted :
                      LET n == Cardinality({ x \in accepted : x < e })
                          r == RegionOf(t, e)
                      IN  /\ SubSeq(m.vertices, 9 * n + 1, 9 * n + 9) = WrittenVertices(r)
                          /\ SubSeq(m.normals, 9 * n + 1, 9 * n + 9)
                                = WrittenNormal(r) \o WrittenNormal(r) \o WrittenNormal(r)

\* two accepted facets with different numbers, decoded
C13_Witness ==
    \E k \in 1..Len(workers) :
        /\ DecodedAscii(k)
        /\ HasSuccess(k)
        /\ IsText(Submitted(k))
        /\ Cardinality(AcceptedRegions(Decode(Submitted(k)))) = 2
        /\ SubSeq(Success(k).vertices, 1, 9) # SubSeq(Success(k).vertices, 10, 18)
        /\ Success(k).vertices[4] # Success(k).vertices[7]

-----------------------------------------------------------------------------
(* Two files decoded end to end *)

\* 80 zero bytes, the count 2, two records with normal (0,0,1): 184 bytes
TwoTriangleFile ==
    Repeat(0, 80) \o <<2, 0, 0, 0>>
      \o Flatten(<<F0, F0, F1,  F0, F0, F0,  F1, F0, F0,  F0, F1, F0>>) \o <<0, 0>>
      \o Flatten(<<F0, F0, F1,  F1, F1, F0,  F1, F0, F0,  F0, F1, F0>>) \o <<0, 0>>

\* C14: the 184-byte binary file of two triangles is sniffed as binary and
\* decoded to a success event with triangleCount 2, format binary, vertices
\* [0,0,0, 1,0,0, 0,1,0, 1,1,0, 1,0,0, 0,1,0] and normals (0,0,1) six times.
C14_TwoTriangleBinary ==
    \A k \in 1..Len(workers) :
        (Started(k) /\ Submitted(k) = TwoTriangleFile) =>
            /\ ~HasError(k)
            /\ workers[k].pc = "done" =>
                  /\ HasSuccess(k)
                  /\ Success(k).triangleCount = 2
                  /\ Success(k).format = "Binary"
                  /\ Success(k).vertices =
                        <<F0, F0, F0,  F1, F0, F0,  F0, F1, F0,
                          F1, F1, F0,  F1, F0, F0,  F0, F1, F0>>
                  /\ Success(k).normals =
                        <<F0, F0, F1,  F0, F0, F1,  F0, F0, F1,
                          F0, F0, F1,  F0, F0, F1,  F0, F0, F1>>

C14_Witness ==
    \E k \in 1..Len(workers) :
        /\ Started(k)
        /\ Submitted(k) = TwoTriangleFile
        /\ Len(Submitted(k)) = 184
        /\ workers[k].pc = "done"
        /\ HasSuccess(k)

\* "solid t", one facet with normal (0,0,1) and vertices (0,0,0), (1,0,0),
\* (0,1,0), "endsolid t", separated by newlines
OneFacetFile ==
    SolidLine \o FacetG1 \o EndSolidLine

\* C15: the one-facet ASCII text is sniffed as ASCII and decoded to a success
\* event with triangleCount 1, format ascii, vertices [0,0,0,1,0,0,0,1,0] and
\* normals [0,0,1,0,0,1,0,0,1].
C15_OneFacetAscii ==
    \A k \in 1..Len(workers) :
        (Started(k) /\ Submitted(k) = OneFacetFile) =>
            /\ ~HasError(k)
            /\ workers[k].pc = "done" =>
                  /\ HasSuccess(k)
                  /\ Success(k).triangleCount = 1
                  /\ Success(k).format = "ASCII"
                  /\ Success(k).vertices = <<F0, F0, F0,  F1, F0, F0,  F0, F1, F0>>
                  /\ Success(k).normals = <<F0, F0, F1,  F0, F0, F1,  F0, F0, F1>>

C15_Witness ==
    \E k \in 1..Len(workers) :
        /\ Started(k)
        /\ Submitted(k) = OneFacetFile
        /\ Len(Submitted(k)) = 104
        /\ workers[k].pc = "done"
        /\ HasSuccess(k)

-----------------------------------------------------------------------------
(* The sniffer *)

\* what the header of the input under classification holds, by the way it was
\* built: "solid" in some letter case anywhere; "solid" at the start once
\* trimmed and lower-cased; bytes that are not UTF-8
ContainsSolid ==
    ap.kind \in {"solid", "spaceSolid", "upperSolid", "solidLater", "solidBad"} /\ ap.n >= 10

StartsWithSolid ==
    ap.kind \in {"solid", "spaceSolid", "upperSolid", "solidBad"} /\ ap.n >= 10

HeaderValid == ~(ap.kind \in {"solidBad", "bad"} /\ ap.n >= 10)

\* the keyword lies in the first min(window, N) bytes
KeywordWithin(window) ==
    ap.tok # <<>> /\ ap.pos + Len(ap.tok) <= Min(window, ap.n)

\* the input with the header bytes that are not UTF-8 replaced by blanks
BlankedHeader(data) ==
    [p \in 1..Len(data) |-> IF p <= HeaderLength /\ data[p] >= 128 THEN 32 ELSE data[p]]

\* C16 as stated: every input shorter than 200 bytes is classified ASCII,
\* whatever its content.
C16_ShortIsAscii ==
    (ap.pc = "classified" /\ ap.n < 200) => ap.isASCII

\* C16 amended: an input of at most 100 bytes is classified ASCII exactly when
\* its header is valid UTF-8 and holds "solid" in some letter case.
C16_ShortByHeader ==
    (ap.pc = "classified" /\ ap.n <= 100) =>
        (ap.isASCII <=> (HeaderValid /\ ContainsSolid))

C16_Witness ==
    /\ ap.pc = "classified"
    /\ ap.n <= 100
    /\ ap.kind = "solidLater"
    /\ ap.isASCII

\* C17 as stated: for an input of at least 200 bytes, a header that, trimmed
\* and lower-cased, does not start with "solid" is classified Binary, and
\* header bytes that are not UTF-8 do not change the classification of a
\* header that starts with "solid".
C17_HeaderStartsWithSolid ==
    (ap.pc = "classified" /\ ap.n >= 200) =>
        /\ ~StartsWithSolid => ~ap.isASCII
        /\ StartsWithSolid => ap.isASCII = isAsciiSTL(BlankedHeader(ap.data))

\* C17 amended: for an input of at least 200 bytes, a header that holds no
\* "solid" in any letter case is classified Binary; header bytes that are
\* not UTF-8 raise no fault and make the classification Binary.
C17_HeaderContainsSolid ==
    (ap.pc = "classified" /\ ap.n >= 200) =>
        /\ ap.isASCII \in BOOLEAN
        /\ ~ContainsSolid => ~ap.isASCII
        /\ ~HeaderValid => ~ap.isASCII

\* a header "solid" followed by bytes that are not UTF-8, a keyword in the sample
C17_Witness ==
    /\ ap.pc = "classified"
    /\ ap.n >= 200
    /\ ap.kind = "solidBad"
    /\ KeywordWithin(1000)
    /\ ~ap.isASCII

\* C18 as stated: for an input of at least 200 bytes whose header starts with
\* "solid", the classification is ASCII if and only if the first
\* min(2000, N) bytes hold "facet" or "vertex".
C18_Sample2000 ==
    (ap.pc = "classified" /\ ap.n >= 200 /\ StartsWithSolid) =>
        (ap.isASCII <=> KeywordWithin(2000))

\* C18 amended: for an input of at least 200 bytes whose header is valid
\* UTF-8 and starts with "solid", the classification is ASCII if and only if
\* the first min(1000, N) bytes hold "facet" or "vertex".
C18_Sample1000 ==
    (ap.pc = "classified" /\ ap.n >= 200 /\ StartsWithSolid /\ HeaderValid) =>
        (ap.isASCII <=> KeywordWithin(1000))

\* a keyword after the first 1000 bytes and before byte 2000: Binary
C18_Witness ==
    /\ ap.pc = "classified"
    /\ ap.n >= 2000
    /\ ap.kind = "solid"
    /\ KeywordWithin(2000)
    /\ ~KeywordWithin(1000)
    /\ ~ap.isASCII

-----------------------------------------------------------------------------
(* Binary files with "solid" in the header; keywords in upper case *)

\* a binary file of a valid length, 84 + 50 * count, whose header starts with
\* "solid" and whose bytes hold neither "facet" nor "vertex"
BinaryWithSolidHeader(bytes) ==
    /\ Len(bytes) >= BinaryDataOffset
    /\ SubSeq(bytes, 1, Len(kwSolid)) = kwSolid
    /\ (Len(bytes) - BinaryDataOffset) % 50 = 0
    /\ getUint32(bytes, BinaryCountOffset) = (Len(bytes) - BinaryDataOffset) \div 50
    /\ ~Includes(bytes, kwFacet)
    /\ ~Includes(bytes, kwVertex)

\* C19: a binary file of a valid length (the count 0 included) whose header
\* starts with "solid" and whose bytes hold neither "facet" nor "vertex" is
\* classified Binary and reported with format binary, never ASCII.
C19_SolidHeaderBinary ==
    \A k \in 1..Len(workers) :
        (Started(k) /\ workers[k].pc # "sniff" /\ BinaryWithSolidHeader(Submitted(k))) =>
            /\ ~workers[k].isASCII
            /\ HasSuccess(k) => Success(k).format = "Binary"

\* C20: the keywords are read in any letter case: a text that is the
\* one-facet text of C15 but for the case of its letters is classified ASCII
\* and decodes to the same triangleCount and buffers.
C20_KeywordsAnyCase ==
    \A k \in 1..Len(workers) :
        (Started(k) /\ toLowerCase(Decode(Submitted(k))) = OneFacetFile) =>
            /\ workers[k].pc # "sniff" => workers[k].isASCII
            /\ ~HasError(k)
            /\ workers[k].pc = "done" =>
                  /\ HasSuccess(k)
                  /\ Success(k).triangleCount = 1
                  /\ Success(k).vertices = <<F0, F0, F0,  F1, F0, F0,  F0, F1, F0>>
                  /\ Success(k).normals = <<F0, F0, F1,  F0, F0, F1,  F0, F0, F1>>

-----------------------------------------------------------------------------
(* C21 *)

\* the progress events the loop of parseBinarySTL has posted, of a decode
\* that has ended with success: those after the 10 and the 20 and before
\* the 90
InLoopEvents(events) ==
    LET ps == SelectSeq(events, IsProgress)
    IN  SubSeq(ps, 3, Len(ps) - 1)

\* the most in-loop events any count gives: 50 and the 49 of the remainder
MostInLoopEvents == 50 + 49

\* C21: a binary decode of T triangles posts its in-loop progress events at
\* the indices that are multiples of max(1, floor(T / 50)) and at no other:
\* at least one of them when T >= 1, and never more than MostInLoopEvents,
\* whatever T is.
C21_InLoopEventsBounded ==
    ap.pc \in {"binaryLoop", "done"} =>
        LET T        == ap.triangleCount
            interval == Max(1, T \div 50)
        IN  /\ \A j \in 1..Len(ap.at) : ap.at[j] % interval = 0
            /\ Len(ap.at) <= MostInLoopEvents
            /\ ap.pc = "done" =>
                  /\ ap.at = SelectSeq([j \in 1..T |-> j - 1],
                                       LAMBDA i : i % interval = 0)
                  /\ T >= 1 => Len(ap.at) >= 1
                  /\ Len(InLoopEvents(ap.emitted)) = Len(ap.at)

C21_Witness ==
    /\ ap.pc = "done"
    /\ ap.records = 99
    /\ Len(ap.at) = MostInLoopEvents

-----------------------------------------------------------------------------
(* C22 *)

\* a buffer whose bytes can be read
Usable(buffer) == Len(buffer) > 0

\* C22: buffers move, they are not shared.  Once the page has submitted the
\* bytes of a file its own arrayBuffer is detached and the worker holds the
\* bytes; once the worker has emitted the success event its vertices and
\* normals are detached; so no buffer is usable on both sides at once.
C22_BuffersMoved ==
    \A k \in 1..Len(loads) :
        /\ loads[k].pc = "posted" =>
              /\ ~Usable(loads[k].arrayBuffer)
              /\ \/ /\ workers[k].inbox # <<>>
                    /\ Head(workers[k].inbox).arrayBuffer = loads[k].file.bytes
                 \/ workers[k].arrayBuffer = loads[k].file.bytes
        /\ HasSuccess(k) =>
              /\ ~Usable(workers[k].geometry.vertices)
              /\ ~Usable(workers[k].geometry.normals)

C22_Witness ==
    \E k \in 1..Len(loads) :
        /\ loads[k].pc = "posted"
        /\ Usable(loads[k].file.bytes)
        /\ HasSuccess(k)
        /\ Usable(Success(k).vertices)
        /\ Usable(Success(k).normals)

-----------------------------------------------------------------------------
(* C23 *)

\* the decode of worker k was cancelled in flight: the worker is terminated
\* and no terminal event of it had been delivered
CancelledInFlight(k) ==
    /\ workers[k].pc # "none"
    /\ workers[k].terminated
    /\ Terminals(delivered[k]) = <<>>

\* C23: once the page has cancelled a decode in flight (worker.terminate()
\* in handleUploadNewFile, in the catch path, in worker.onerror, or when a
\* new file replaces the worker), no event of that decode is delivered any
\* more: its queue is empty, no timer of it is pending, and the list of its
\* delivered events never grows, so nothing of it changes progress,
\* modelData or loading afterwards.
C23_NoEventAfterCancel ==
    /\ [](\A k \in 1..Len(workers) :
             CancelledInFlight(k) =>
                /\ chan[k] = <<>>
                /\ \A t \in timers : t.load # k)
    /\ [][\A k \in 1..Len(workers) :
             CancelledInFlight(k) =>
                /\ delivered'[k] = delivered[k]
                /\ workers'[k].emitted = workers[k].emitted]_vars

\* a worker replaced while its decode ran: events it had posted were never
\* delivered, and the load that replaced it went on
C23_Witness ==
    \E k, j \in 1..Len(workers) :
        /\ j # k
        /\ CancelledInFlight(k)
        /\ Len(workers[k].emitted) > Len(delivered[k])
        /\ delivered[k] # <<>>
        /\ delivered[j] # <<>>

-----------------------------------------------------------------------------
(* C24, C26 *)

\* the events of the n-th decode of a worker: up to its n-th terminal event
FirstTerminal(events) ==
    CHOOSE j \in 1..Len(events) :
        IsTerminal(events[j]) /\ \A i \in 1..(j - 1) : ~IsTerminal(events[i])

DecodeEvents(d) ==
    IF ap.same
    THEN LET e == workers[1].emitted
             t == FirstTerminal(e)
         IN  IF d = 1 THEN SubSeq(e, 1, t) ELSE SubSeq(e, t + 1, Len(e))
    ELSE workers[d].emitted

\* both decodes have ended
BothDecoded ==
    /\ ap.pc = "twice"
    /\ \A k \in 1..Len(workers) : workers[k].pc = "done" /\ workers[k].inbox = <<>>

\* the decode ended because the two arrays could not be allocated
AllocationFailed(events) ==
    \E j \in 1..Len(events) :
        events[j].type = "error" /\ events[j].error = MsgAllocation

\* the memory at hand gave the two decodes the same
SameMemory == AllocationFailed(DecodeEvents(1)) <=> AllocationFailed(DecodeEvents(2))

\* C24: decoding is deterministic and idempotent.  The same bytes submitted
\* twice, to one worker or to two, give the same sequence of events, the
\* same vertices and normals and the same triangleCount; nothing of the
\* first decode is left in the second.  (The one thing that is not the
\* decoder's can differ: whether arrays of 16777216 * 9 floats and more
\* could be allocated.)
C24_SameBytesSameEvents ==
    (BothDecoded /\ ap.names[1] = ap.names[2] /\ SameMemory) =>
        DecodeEvents(1) = DecodeEvents(2)

C24_Witness ==
    /\ BothDecoded
    /\ ap.same
    /\ ap.names[1] = ap.names[2]
    /\ Len(DecodeEvents(1)) = 4
    /\ Len(DecodeEvents(2)) = 4
    /\ DecodeEvents(2)[4].type = "complete"
    /\ DecodeEvents(2)[4].format = "ASCII"
    /\ DecodeEvents(2)[4].triangleCount = 2

\* C26: the decoder does not interpret fileName.  The same bytes submitted
\* under two names give the same sequence of events and the same outputs.
C26_NameNotInterpreted ==
    (BothDecoded /\ ap.names[1] # ap.names[2] /\ SameMemory) =>
        /\ DecodeEvents(1) = DecodeEvents(2)
        /\ \A k \in 1..Len(workers) : workers[k].fileName \in {ap.names[1], ap.names[2]}

C26_Witness ==
    /\ BothDecoded
    /\ ~ap.same
    /\ workers[1].fileName = NameLower
    /\ workers[2].fileName = NameUpper
    /\ HasSuccess(1)
    /\ HasSuccess(2)
    /\ Success(2).format = "ASCII"
    /\ Success(2).triangleCount = 1

-----------------------------------------------------------------------------
(* C25 *)

\* the decode of the mesh of ap has ended
MeshDecoded == ap.pc = "mesh" /\ workers[1].pc = "done"

\* the floats of a list that are NaN
HasNaN(floats) == \E j \in 1..Len(floats) : IsNaNWord(floats[j])

\* the floats are those of the original, a NaN standing for any NaN
SameFloats(decoded, original) ==
    /\ Len(decoded) = Len(original)
    /\ \A j \in 1..Len(original) :
          IF IsNaNWord(original[j])
          THEN IsNaNWord(decoded[j])
          ELSE decoded[j] = original[j]

\* C25: every mesh, written in the binary layout with any header that
\* sniffs as binary and any attribute bytes, decodes to exactly the original
\* vertices and normals.
C25_RoundTrip ==
    MeshDecoded =>
        /\ HasSuccess(1)
        /\ Success(1).vertices = ap.vertices
        /\ Success(1).normals = ap.normals

\* C25 as the code has it: the floats that are not NaN come back bit for
\* bit, a NaN comes back as a NaN (its bits are not kept); a mesh without a
\* NaN decodes to exactly the original vertices and normals.
C25_RoundTripButNaN ==
    MeshDecoded =>
        /\ HasSuccess(1)
        /\ Success(1).triangleCount = Len(ap.vertices) \div 9
        /\ SameFloats(Success(1).vertices, ap.vertices)
        /\ SameFloats(Success(1).normals, ap.normals)
        /\ ~HasNaN(ap.vertices) => Success(1).vertices = ap.vertices
        /\ ~HasNaN(ap.normals) => Success(1).normals = ap.normals

C25_Witness ==
    /\ MeshDecoded
    /\ Len(ap.vertices) = 18
    /\ ~HasNaN(ap.vertices \o ap.normals)
    /\ SubSeq(loads[1].file.bytes, 1, 5) = kwSolid
    /\ SubSeq(loads[1].file.bytes, 133, 134) = <<171, 65>>
    /\ Success(1).vertices = ap.vertices
    /\ Success(1).normals = ap.normals

-----------------------------------------------------------------------------
(* C27 *)

\* something of load k is still to come: the end of its file read, a step of
\* its worker, an event or an error callback of that worker, or a timer
Pending(k) ==
    \/ loads[k].pc = "reading"
    \/ CanStep(k)
    \/ Running(k) /\ chan[k] # <<>>
    \/ Running(k) /\ workers[k].pc = "idle"
    \/ \E t \in timers : t.load = k

\* C27: every load that is started ends with loading back to false, after a
\* success, a decoder error event, a worker crash or a file-read failure.
\* A state in which nothing of any load is still to come is never left, so
\* the page must not be loading there.
C27_LoadingEnds ==
    loading => \E k \in 1..Len(loads) : Pending(k)

-----------------------------------------------------------------------------
(* C28 *)

\* the workers created and not terminated
LiveWorkers ==
    { k \in 1..Len(workers) : workers[k].pc # "none" /\ ~workers[k].terminated }

\* C28: at any time at most one parser worker that has not been terminated
\* exists, and it is the one workerRef holds: when handleFileSelect creates
\* a worker every earlier one has been terminated, however the calls of
\* handleFileSelect (their file reads ending in any order),
\* handleUploadNewFile and the worker error callbacks interleave.
C28_AtMostOneWorker ==
    /\ Cardinality(LiveWorkers) <= 1
    /\ \A k \in LiveWorkers : workerRef = k

\* the second of two overlapping loads got its worker while the first one's
\* was decoding
C28_Witness ==
    \E k, j \in 1..Len(workers) :
        /\ k # j
        /\ workers[k].terminated
        /\ workers[k].pc \notin {"none", "idle", "failed", "done"}
        /\ LiveWorkers = {j}
        /\ workers[j].emitted # <<>>

-----------------------------------------------------------------------------
(* C29 *)

\* C29: during a load, from loading becoming true to the 'Complete!' state,
\* the progress the page shows never decreases: not in the file-read phase
\* (5 to 35), not with the progress events of the worker, not with the
\* final 95 and 100.
C29_PageProgressNeverDecreases ==
    [][(loading /\ loading' /\ status # "Complete!") => progress' >= progress]_vars

-----------------------------------------------------------------------------
(* C30 *)

\* the step is the selection of a file whose name does not end in .stl,
\* whatever the case of its letters: chosen in the input, or dropped with no
\* file named .stl beside it
SelectsOther ==
    /\ Len(loads') = Len(loads) + 1
    /\ ~EndsWith(toLowerCase(loads'[Len(loads')].file.name), dotStl)

\* the step changes nothing of the page and of its workers
NothingElseChanges ==
    /\ loading' = loading
    /\ progress' = progress
    /\ status' = status
    /\ modelData' = modelData
    /\ workerRef' = workerRef
    /\ timers' = timers
    /\ \A k \in 1..Len(workers) : workers'[k] = workers[k] /\ chan'[k] = chan[k]
    /\ \A k \in (Len(workers) + 1)..Len(workers') : workers'[k].pc = "none"

InvalidFileToast ==
    Toast("Invalid file type", "Please upload a valid STL file.", "destructive")

\* C30: selecting a file whose name does not end in '.stl' is rejected with
\* an error toast and nothing else changes: loading, progress, status and
\* modelData keep their values, no worker is created, an existing worker is
\* not terminated.
C30_RejectedWithToast ==
    [][SelectsOther => /\ toasts' = Append(toasts, InvalidFileToast)
                       /\ NothingElseChanges]_vars

\* C30 as the code has it: nothing changes but the toasts; the file chosen
\* in the input is rejected with the error toast (handleFileSelect), the
\* dropped one is left out by handleDrop without a toast.
C30_RejectedAndNothingChanges ==
    [][SelectsOther => /\ NothingElseChanges
                       /\ toasts' = IF loads'[Len(loads')].pc = "rejected"
                                    THEN Append(toasts, InvalidFileToast)
                                    ELSE toasts]_vars

\* a file rejected while a load was going on and its worker was alive
C30_Witness ==
    /\ Len(loads) = 2
    /\ loads[2].pc = "rejected"
    /\ loads[2].file.name = NameOther
    /\ loading
    /\ progress > 0
    /\ LiveWorkers = {1}
    /\ toasts = <<InvalidFileToast>>

=============================================================================
